---- MODULE Spec2Model ----
(***************************************************************************)
(* State-machine model of the AirClone client: the App selection state,    *)
(* the Sidebar listings and their loaders, and the two creation cascades   *)
(* (CreateBaseModal, CreateTableModal) running against the remote store.   *)
(* Every await of the source is a suspension point: the step that issues a *)
(* remote call and the step that resumes after it are separate actions.    *)
(***************************************************************************)
EXTENDS Integers, Sequences, FiniteSets, TLC

VARIABLES
    \* remote data service
    dbBases, dbTables, dbFields, dbViews, dbRecords, dbClock,
    \* client id generation
    nextId,
    \* App.tsx
    user, loading,
    selectedBaseId, selectedTableId, selectedViewId,
    currentBase, currentTable,
    createBaseModalOpen, createTableModalOpen, createRecordModalOpen,
    \* Sidebar
    sbBases, sbTables, sbViews, expandedBases,
    \* list calls in flight (the loaders of App, Sidebar, GridView and
    \* CreateRecordModal)
    fetches,
    \* GridView: component state
    gridFields, gridRecords, gridLoading, editingCell,
    \* update calls in flight (GridView.updateCellValue)
    updates,
    \* CreateRecordModal: component state and the running handleSubmit
    recordModal, recordSubmit,
    \* CreateBaseModal: component state and the running handleSubmit
    baseModal, baseSubmit,
    \* CreateTableModal: component state, the running handleSubmit, and the
    \* pending 100 ms timers (each named by the table its cascade created)
    tableModal, tableSubmit, tableTimers,
    \* what the user and the caller observe
    alerts, refreshCalls,
    \* create calls in flight (the modals' handleSubmit)
    creates,
    \* number of form submissions and of form edits so far
    submits, edits

vars == <<dbBases, dbTables, dbFields, dbViews, dbRecords, dbClock, nextId,
          user, loading, selectedBaseId, selectedTableId, selectedViewId,
          currentBase, currentTable, createBaseModalOpen, createTableModalOpen,
          createRecordModalOpen,
          sbBases, sbTables, sbViews, expandedBases, fetches,
          gridFields, gridRecords, gridLoading, editingCell, updates,
          recordModal, recordSubmit,
          baseModal, baseSubmit, tableModal, tableSubmit, tableTimers,
          alerts, refreshCalls, creates, submits, edits>>

dbVars == <<dbBases, dbTables, dbFields, dbViews, dbRecords, dbClock>>
selVars == <<selectedBaseId, selectedTableId, selectedViewId>>
appDataVars == <<currentBase, currentTable>>
sidebarVars == <<sbBases, sbTables, sbViews, expandedBases>>
baseModalVars == <<baseModal, baseSubmit>>
tableModalVars == <<tableModal, tableSubmit, tableTimers>>
gridVars == <<gridFields, gridRecords, gridLoading, editingCell>>
recordModalVars == <<createRecordModalOpen, recordModal, recordSubmit>>

----------------------------------------------------------------------------
(* Bounds *)

\* total number of form submissions (both modals) in one page lifetime
MaxSubmits == 2
\* total number of form edits (a changed input, a colour click) in one page lifetime
MaxEdits == 2
\* number of list calls that may be in flight together
MaxPending == 3
\* number of palette colours the user clicks among
NumColors == 2

----------------------------------------------------------------------------
(* Values *)

Users == {"u1", "u2"}
\* user === null
NoUser == "none"
\* selectedBaseId === undefined (ids are positive)
NoId == 0
\* currentBase === undefined
Undefined == [id |-> NoId]

\* strings typed into the forms are sequences of characters
EmptyStr == << >>
UndefinedStr == <<"undefined">>
NullStr == <<"null">>
TableOneStr == <<"T", "a", "b", "l", "e", " ", "1">>
Names == {EmptyStr, <<" ">>, <<" ", "a", " ">>}
Descriptions == {EmptyStr, <<"d">>}

\* what the user types into a cell of the grid or an input of the record form
CellValues == {"", "z"}
\* editingCell === null
NoCell == [recordId |-> NoId, fieldId |-> NoId]
\* the object {} : a mapping without keys
EmptyMap == [k \in {} |-> ""]

BASE_COLORS == <<"#2563EB", "#7C3AED", "#DC2626", "#EA580C",
                 "#CA8A04", "#16A34A", "#0891B2", "#C2410C">>

\* what a rejected remote call throws: an Error with a message, or a
\* value that is not an Error
Errors == {[isError |-> TRUE, message |-> "network"],
           [isError |-> FALSE, message |-> "n/a"]}

----------------------------------------------------------------------------
(* Pure helpers *)

RECURSIVE TrimStart(_)
TrimStart(s) ==
    IF s # << >> /\ Head(s) = " " THEN TrimStart(Tail(s)) ELSE s

RECURSIVE TrimEnd(_)
TrimEnd(s) ==
    IF s # << >> /\ s[Len(s)] = " " THEN TrimEnd(SubSeq(s, 1, Len(s) - 1)) ELSE s

\* String.prototype.trim
Trim(s) == TrimEnd(TrimStart(s))

\* JSON.stringify of a value
JSONstringify(v) == [json |-> v]

\* the element of S with the least / greatest createdAt
OldestOf(S) == CHOOSE x \in S : \A y \in S : x.createdAt <= y.createdAt
NewestOf(S) == CHOOSE x \in S : \A y \in S : x.createdAt >= y.createdAt

\* list(...) with orderBy createdAt asc / desc
RECURSIVE OrderByCreatedAsc(_)
OrderByCreatedAsc(S) ==
    IF S = {} THEN << >>
    ELSE <<OldestOf(S)>> \o OrderByCreatedAsc(S \ {OldestOf(S)})

RECURSIVE OrderByCreatedDesc(_)
OrderByCreatedDesc(S) ==
    IF S = {} THEN << >>
    ELSE <<NewestOf(S)>> \o OrderByCreatedDesc(S \ {NewestOf(S)})

Range(s) == {s[i] : i \in 1..Len(s)}

\* list(...) with orderBy position asc
RECURSIVE OrderByPositionAsc(_)
OrderByPositionAsc(S) ==
    IF S = {} THEN << >>
    ELSE LET first == CHOOSE x \in S : \A y \in S :
                          \/ x.position < y.position
                          \/ x.position = y.position /\ x.createdAt <= y.createdAt
         IN <<first>> \o OrderByPositionAsc(S \ {first})

\* JSON.parse of a string that JSON.stringify produced
JSONparse(str) == str.json

\* GridView.parseRecordData: the parsed mapping, {} when parsing throws
parseRecordData(dataString) ==
    IF "json" \in DOMAIN dataString THEN JSONparse(dataString) ELSE EmptyMap

\* { ...data, [key]: value }
Spread(data, key, value) ==
    [k \in DOMAIN data \cup {key} |-> IF k = key THEN value ELSE data[k]]

----------------------------------------------------------------------------
(* Entities, as passed to create; createdAt is set by the remote store *)

BaseEntity(id, name, description, color, userId) ==
    [id |-> id, name |-> name, description |-> description,
     color |-> color, userId |-> userId, createdAt |-> 0]

TableEntity(id, baseId, name, description, userId) ==
    [id |-> id, baseId |-> baseId, name |-> name,
     description |-> description, userId |-> userId, createdAt |-> 0]

FieldEntity(id, tableId, name, type, options, position, userId) ==
    [id |-> id, tableId |-> tableId, name |-> name, type |-> type,
     options |-> options, position |-> position, required |-> FALSE,
     userId |-> userId, createdAt |-> 0]

ViewEntity(id, tableId, userId) ==
    [id |-> id, tableId |-> tableId, name |-> "Grid view", type |-> "grid",
     userId |-> userId, createdAt |-> 0]

RecordEntity(id, tableId, data, userId) ==
    [id |-> id, tableId |-> tableId, data |-> data, userId |-> userId,
     createdAt |-> 0]

\* field.options of a default field that has none
NoOptions == [undefined |-> TRUE]

StatusOptions ==
    <<[id |-> "todo", name |-> "To do", color |-> "#EF4444"],
      [id |-> "in_progress", name |-> "In progress", color |-> "#F59E0B"],
      [id |-> "done", name |-> "Done", color |-> "#10B981"]>>

\* a variant of the fields array whose positions are counted from 1
BaseDefaultFieldsFromOne ==
    <<[name |-> "Name", type |-> "text", position |-> 1, options |-> NoOptions],
      [name |-> "Notes", type |-> "text", position |-> 2, options |-> NoOptions],
      [name |-> "Status", type |-> "select", position |-> 3,
       options |-> JSONstringify(StatusOptions)]>>

\* a variant of the fields array whose Status field is a text field
BaseDefaultFieldsStatusText ==
    <<[name |-> "Name", type |-> "text", position |-> 0, options |-> NoOptions],
      [name |-> "Notes", type |-> "text", position |-> 1, options |-> NoOptions],
      [name |-> "Status", type |-> "text", position |-> 2, options |-> NoOptions]>>

\* the fields array of CreateBaseModal.handleSubmit
BaseDefaultFields ==
    <<[name |-> "Name", type |-> "text", position |-> 0, options |-> NoOptions],
      [name |-> "Notes", type |-> "text", position |-> 1, options |-> NoOptions],
      [name |-> "Status", type |-> "select", position |-> 2,
       options |-> JSONstringify(StatusOptions)]>>

\* a variant of the fields array whose two fields share position 0
TableDefaultFieldsSamePosition ==
    <<[name |-> "Name", type |-> "text", position |-> 0, options |-> NoOptions],
      [name |-> "Notes", type |-> "text", position |-> 0, options |-> NoOptions]>>

\* the fields array of CreateTableModal.handleSubmit
TableDefaultFields ==
    <<[name |-> "Name", type |-> "text", position |-> 0, options |-> NoOptions],
      [name |-> "Notes", type |-> "text", position |-> 1, options |-> NoOptions]>>

\* the entity as the remote store keeps it
Stored(entity, clock) == [entity EXCEPT !.createdAt = clock]

----------------------------------------------------------------------------
(* Remote stores the page may find when it is opened: an empty one, and    *)
(* one that earlier sessions of two users have filled through the forms.   *)

EmptyStore ==
    [bases |-> {}, tables |-> {}, fields |-> {}, views |-> {}, records |-> {},
     clock |-> 0, nextId |-> 1]

\* what a complete CreateBaseModal cascade leaves, ids and clock from id0
BaseCascadeOf(u, id0, name, color) ==
    [bases |-> {Stored(BaseEntity(id0, name, UndefinedStr, color, u), id0)},
     tables |-> {Stored(TableEntity(id0 + 1, id0, TableOneStr, UndefinedStr, u), id0 + 1)},
     fields |-> {Stored(FieldEntity(id0 + 1 + i, id0 + 1, BaseDefaultFields[i].name,
                                    BaseDefaultFields[i].type, BaseDefaultFields[i].options,
                                    BaseDefaultFields[i].position, u), id0 + 1 + i)
                 : i \in 1..Len(BaseDefaultFields)},
     views |-> {Stored(ViewEntity(id0 + 5, id0 + 1, u), id0 + 5)}]

\* what a complete CreateTableModal cascade leaves
TableCascadeOf(u, baseId, id0, name) ==
    [bases |-> {},
     tables |-> {Stored(TableEntity(id0, baseId, name, NullStr, u), id0)},
     fields |-> {Stored(FieldEntity(id0 + i, id0, TableDefaultFields[i].name,
                                    TableDefaultFields[i].type, TableDefaultFields[i].options,
                                    TableDefaultFields[i].position, u), id0 + i)
                 : i \in 1..Len(TableDefaultFields)},
     views |-> {Stored(ViewEntity(id0 + 3, id0, u), id0 + 3)}]

SeedParts ==
    {BaseCascadeOf("u1", 1, <<"a">>, BASE_COLORS[1]),
     TableCascadeOf("u1", 1, 7, <<"a">>),
     BaseCascadeOf("u1", 11, <<"a">>, BASE_COLORS[2]),
     BaseCascadeOf("u2", 17, <<"a">>, BASE_COLORS[1])}

\* what CreateRecordModal submissions leave: in table 2 a record with typed
\* values and one submitted with an empty form mapping, in table 7 a record
\* with the initial values of the form
SeedRecords ==
    {Stored(RecordEntity(23, 2, JSONstringify((3 :> "x") @@ (4 :> "y") @@ (5 :> "")),
                         "u1"), 23),
     Stored(RecordEntity(24, 2, JSONstringify(EmptyMap), "u1"), 24),
     Stored(RecordEntity(25, 7, JSONstringify((8 :> "") @@ (9 :> "")), "u1"), 25)}

FilledStore ==
    [bases |-> UNION {p.bases : p \in SeedParts},
     tables |-> UNION {p.tables : p \in SeedParts},
     fields |-> UNION {p.fields : p \in SeedParts},
     views |-> UNION {p.views : p \in SeedParts},
     records |-> SeedRecords,
     clock |-> 25, nextId |-> 26]

SeedStores == {EmptyStore, FilledStore}

----------------------------------------------------------------------------
(* Initial state: the page has just been opened *)

InitBaseModal ==
    [name |-> EmptyStr, description |-> EmptyStr,
     selectedColor |-> BASE_COLORS[1], loading |-> FALSE]

InitTableModal ==
    [name |-> EmptyStr, description |-> EmptyStr, loading |-> FALSE]

InitRecordModal ==
    [fields |-> << >>, formData |-> EmptyMap, loading |-> FALSE]

\* no handleSubmit of the modal is running
IdleBaseSubmit ==
    [pc |-> "idle", user |-> NoUser, baseId |-> NoId, tableId |-> NoId, i |-> 0,
     name |-> EmptyStr, description |-> EmptyStr, color |-> BASE_COLORS[1]]

IdleTableSubmit ==
    [pc |-> "idle", user |-> NoUser, baseId |-> NoId, tableId |-> NoId, i |-> 0,
     name |-> EmptyStr, description |-> EmptyStr]

\* no handleSubmit of the record modal is running
IdleRecordSubmit ==
    [pc |-> "idle", tableId |-> NoId, formData |-> EmptyMap]

Init ==
    /\ \E seed \in SeedStores :
        /\ dbBases = seed.bases
        /\ dbTables = seed.tables
        /\ dbFields = seed.fields
        /\ dbViews = seed.views
        /\ dbRecords = seed.records
        /\ dbClock = seed.clock
        /\ nextId = seed.nextId
    /\ user = NoUser
    /\ loading = TRUE
    /\ selectedBaseId = NoId
    /\ selectedTableId = NoId
    /\ selectedViewId = NoId
    /\ currentBase = Undefined
    /\ currentTable = Undefined
    /\ createBaseModalOpen = FALSE
    /\ createTableModalOpen = FALSE
    /\ createRecordModalOpen = FALSE
    /\ sbBases = << >>
    /\ sbTables = << >>
    /\ sbViews = << >>
    /\ expandedBases = {}
    /\ fetches = {}
    /\ gridFields = << >>
    /\ gridRecords = << >>
    /\ gridLoading = TRUE
    /\ editingCell = NoCell
    /\ updates = {}
    /\ recordModal = InitRecordModal
    /\ recordSubmit = IdleRecordSubmit
    /\ baseModal = InitBaseModal
    /\ baseSubmit = IdleBaseSubmit
    /\ tableModal = InitTableModal
    /\ tableSubmit = IdleTableSubmit
    /\ tableTimers = {}
    /\ alerts = << >>
    /\ refreshCalls = [base |-> 0, table |-> 0, record |-> 0]
    /\ creates = {}
    /\ submits = 0
    /\ edits = 0

----------------------------------------------------------------------------
(* Remote data service: list calls *)

\* blink.db.<coll>.list({ where: { id, userId } })
ListById(coll, id, userId) == {e \in coll : e.id = id /\ e.userId = userId}

\* a list call in flight; id is the parent id of the where clause; mounted
\* tells whether the component whose loader awaits the call is still the
\* one on the page (a state update of an unmounted component has no effect)
Fetch(kind, id, userId) ==
    [kind |-> kind, id |-> id, userId |-> userId, mounted |-> TRUE]

\* there is room for the list calls an interaction issues
CanIssue(new) == Cardinality(fetches \cup new) <= MaxPending

\* the App with a user is rendered: Sidebar, grid and modals are mounted
Mounted == ~loading /\ user # NoUser

\* no dialog is open: a Dialog is modal, the page behind it takes no clicks
PageActive ==
    /\ Mounted
    /\ ~createBaseModalOpen /\ ~createTableModalOpen /\ ~createRecordModalOpen

\* the loaders, each with the effect that calls it: the list calls that a
\* run of the effect with these dependencies issues
loadCurrentBase(baseId, u) ==
    IF baseId = NoId \/ u = NoUser THEN {} ELSE {Fetch("currentBase", baseId, u)}

\* a variant of loadCurrentTable that does not look at the user
loadCurrentTableWithoutUser(tableId, u) ==
    IF tableId = NoId THEN {} ELSE {Fetch("currentTable", tableId, u)}

loadCurrentTable(tableId, u) ==
    IF tableId = NoId \/ u = NoUser THEN {} ELSE {Fetch("currentTable", tableId, u)}

loadBases(u) ==
    IF u = NoUser THEN {} ELSE {Fetch("bases", NoId, u)}

loadTables(baseId, u) ==
    IF baseId = NoId \/ u = NoUser THEN {} ELSE {Fetch("tables", baseId, u)}

loadViews(tableId, u) ==
    IF tableId = NoId \/ u = NoUser THEN {} ELSE {Fetch("views", tableId, u)}

\* a variant of GridView.loadData that issues no list call
loadDataNever(tableId, u) == {}

\* GridView.loadData up to its first await
loadData(tableId, u) ==
    IF tableId = NoId \/ u = NoUser THEN {} ELSE {Fetch("fields", tableId, u)}

\* the list calls of the components below App
SidebarKinds == {"bases", "tables", "views"}
GridKinds == {"fields", "records"}
RecordModalKinds == {"me", "modalFields"}

\* a variant of unmounting that aborts the calls of the components
UnmountCancels(calls, kinds) == {c \in calls : c.kind \notin kinds}

\* the components of these kinds unmount: their calls stay in flight
Unmount(calls, kinds) ==
    {IF c.kind \in kinds THEN [c EXCEPT !.mounted = FALSE] ELSE c : c \in calls}

----------------------------------------------------------------------------
(* Authentication *)

\* the callback of blink.auth.onAuthStateChanged. Without a user App renders
\* the landing page: Sidebar, GridView and the modals unmount and lose their
\* state, the state of App stays and its two effects run. With a user they
\* mount, and the effects of App, Sidebar and GridView run for the selection
\* App holds.
onAuthStateChanged(u) ==
    /\ u # NoUser => user = NoUser
    /\ user' = u
    /\ loading' = FALSE
    /\ LET app == loadCurrentBase(selectedBaseId, u)
                      \cup loadCurrentTable(selectedTableId, u)
       IN IF u = NoUser
          THEN /\ fetches' = Unmount(fetches, SidebarKinds \cup GridKinds
                                                 \cup RecordModalKinds) \cup app
               /\ updates' = Unmount(updates, {"update"})
               /\ expandedBases' = {}
          ELSE /\ fetches' = fetches \cup app
                               \cup loadBases(u)
                               \cup loadTables(selectedBaseId, u)
                               \cup loadViews(selectedTableId, u)
                               \cup loadData(selectedTableId, u)
               /\ UNCHANGED updates
               /\ expandedBases' = IF selectedBaseId # NoId THEN {selectedBaseId} ELSE {}
    /\ sbBases' = << >> /\ sbTables' = << >> /\ sbViews' = << >>
    /\ gridFields' = << >> /\ gridRecords' = << >>
    /\ gridLoading' = TRUE /\ editingCell' = NoCell
    /\ baseModal' = InitBaseModal
    /\ tableModal' = InitTableModal
    /\ recordModal' = InitRecordModal
    /\ UNCHANGED <<dbVars, nextId, selVars, appDataVars, createBaseModalOpen,
                   createTableModalOpen, createRecordModalOpen, baseSubmit,
                   tableSubmit, tableTimers, recordSubmit,
                   alerts, refreshCalls, creates, submits, edits>>

\* the provider reports the session the page was opened with
SessionResolved(u) ==
    /\ loading
    /\ onAuthStateChanged(u)

\* TopNavigation.handleLogout: blink.auth.logout(), reported to the callback
handleLogout ==
    /\ PageActive
    /\ onAuthStateChanged(NoUser)

\* a user signs in on the landing page, after the calls of the session
\* before have resolved
SignedIn(u) ==
    /\ ~loading /\ user = NoUser
    /\ u # NoUser
    /\ fetches = {}
    /\ onAuthStateChanged(u)

----------------------------------------------------------------------------
(* App: selection handlers *)

\* a variant of handleBaseSelect that leaves the view selection alone
handleBaseSelectKeepsView(baseId) ==
    /\ selectedBaseId' = baseId
    /\ selectedTableId' = NoId
    /\ currentTable' = Undefined
    /\ UNCHANGED selectedViewId

\* a variant of handleBaseSelect that leaves the table selection alone
handleBaseSelectKeepsTable(baseId) ==
    /\ selectedBaseId' = baseId
    /\ selectedViewId' = NoId
    /\ UNCHANGED <<selectedTableId, currentTable>>

handleBaseSelect(baseId) ==
    /\ selectedBaseId' = baseId
    /\ selectedTableId' = NoId
    /\ selectedViewId' = NoId
    /\ currentTable' = Undefined

\* a variant of handleTableSelect that leaves the view selection alone
handleTableSelectKeepsView(tableId) ==
    /\ selectedTableId' = tableId
    /\ UNCHANGED selectedViewId

handleTableSelect(tableId) ==
    /\ selectedTableId' = tableId
    /\ selectedViewId' = NoId

\* a variant of handleViewSelect that also drops the cached table
handleViewSelectDropsTable(viewId) ==
    /\ selectedViewId' = viewId
    /\ currentTable' = Undefined

handleViewSelect(viewId) ==
    /\ selectedViewId' = viewId
    /\ UNCHANGED currentTable

----------------------------------------------------------------------------
(* Sidebar: what is rendered and can be clicked *)

\* base rows
ClickableBases == {b.id : b \in Range(sbBases)}

\* table rows: under every listed base that is expanded, the cached tables
\* of that base
ClickableTables ==
    {t.id : t \in {x \in Range(sbTables) :
                      \E b \in Range(sbBases) :
                          b.id \in expandedBases /\ x.baseId = b.id}}

\* a variant that offers every cached view under the selected table's row
ClickableViewsUnfiltered ==
    {v.id : v \in {x \in Range(sbViews) : selectedTableId \in ClickableTables}}

\* view rows: under the row of the selected table, the cached views of it
ClickableViews ==
    {v.id : v \in {x \in Range(sbViews) :
                      /\ selectedTableId \in ClickableTables
                      /\ x.tableId = selectedTableId}}

\* the ids the remote store holds
BaseIds == {b.id : b \in dbBases}
TableIds == {t.id : t \in dbTables}
ViewIds == {v.id : v \in dbViews}

\* toggleBaseExpansion
toggleBaseExpansion(baseId) ==
    IF baseId \in expandedBases THEN expandedBases \ {baseId}
    ELSE expandedBases \cup {baseId}

\* click on a base row: onBaseSelect and toggleBaseExpansion, then the
\* effects of the render that follows: App loads the current base, Sidebar
\* loads the tables of the base and expands it; the effects that depend on
\* the table run with no table, and GridView unmounts
ClickBase(b) ==
    /\ PageActive
    /\ b \in ClickableBases
    /\  LET changed == b # selectedBaseId
            tableChanged == selectedTableId # NoId
            new == (IF changed
                    THEN loadCurrentBase(b, user) \cup loadTables(b, user)
                    ELSE {})
                   \cup (IF tableChanged
                         THEN loadCurrentTable(NoId, user) \cup loadViews(NoId, user)
                         ELSE {})
        IN /\ CanIssue(new)
           /\ handleBaseSelect(b)
           /\ expandedBases' = IF changed
                               THEN toggleBaseExpansion(b) \cup {b}
                               ELSE toggleBaseExpansion(b)
           /\ fetches' = Unmount(fetches, GridKinds) \cup new
    /\ updates' = Unmount(updates, {"update"})
    /\ gridFields' = << >> /\ gridRecords' = << >>
    /\ gridLoading' = TRUE /\ editingCell' = NoCell
    /\ UNCHANGED <<recordModalVars, dbVars, nextId, user, loading, currentBase,
                   createBaseModalOpen, createTableModalOpen, sbBases, sbTables, sbViews,
                   baseModalVars, tableModalVars, alerts, refreshCalls, creates,
                   submits, edits>>

\* click on a table row: onTableSelect, then the effects: App loads the
\* current table, Sidebar loads the views of the table, GridView (mounted
\* by this render, or already showing another table) loads fields and records
ClickTable(t) ==
    /\ PageActive
    /\ t \in ClickableTables
    /\  LET changed == t # selectedTableId
            new == IF changed
                   THEN loadCurrentTable(t, user) \cup loadViews(t, user)
                            \cup loadData(t, user)
                   ELSE {}
        IN /\ CanIssue(new)
           /\ handleTableSelect(t)
           /\ fetches' = fetches \cup new
           /\ gridLoading' = IF loadData(t, user) \cap new # {} THEN TRUE ELSE gridLoading
    /\ UNCHANGED <<gridFields, gridRecords, editingCell, updates, recordModalVars,
                   dbVars, nextId, user, loading, selectedBaseId, appDataVars,
                   createBaseModalOpen, createTableModalOpen, sidebarVars,
                   baseModalVars, tableModalVars, alerts, refreshCalls, creates,
                   submits, edits>>

\* click on a view row: onViewSelect
ClickView(v) ==
    /\ PageActive
    /\ v \in ClickableViews
    /\ handleViewSelect(v)
    /\ UNCHANGED <<gridVars, updates, recordModalVars, dbVars, nextId, user, loading, selectedBaseId, selectedTableId,
                   currentBase, createBaseModalOpen, createTableModalOpen,
                   sidebarVars, fetches, baseModalVars, tableModalVars,
                   alerts, refreshCalls, creates, submits, edits>>

----------------------------------------------------------------------------
(* Loaders: a list call in flight resolves or rejects *)

\* App.loadCurrentBase after its await
loadCurrentBaseSettled ==
    /\ \E f \in fetches :
        /\ f.kind = "currentBase"
        /\ fetches' = fetches \ {f}
        /\ \/ LET bases == ListById(dbBases, f.id, f.userId)
              IN currentBase' = IF bases # {} THEN CHOOSE b \in bases : TRUE
                                ELSE currentBase
           \/ UNCHANGED currentBase
    /\ UNCHANGED <<gridVars, updates, recordModalVars, dbVars, nextId, user, loading,
                   selVars, currentTable,
                   createBaseModalOpen, createTableModalOpen, sidebarVars,
                   baseModalVars, tableModalVars, alerts, refreshCalls, creates, submits, edits>>

\* App.loadCurrentTable after its await
loadCurrentTableSettled ==
    /\ \E f \in fetches :
        /\ f.kind = "currentTable"
        /\ fetches' = fetches \ {f}
        /\ \/ LET tables == ListById(dbTables, f.id, f.userId)
              IN currentTable' = IF tables # {} THEN CHOOSE t \in tables : TRUE
                                 ELSE currentTable
           \/ UNCHANGED currentTable
    /\ UNCHANGED <<gridVars, updates, recordModalVars, dbVars, nextId, user, loading,
                   selVars, currentBase,
                   createBaseModalOpen, createTableModalOpen, sidebarVars,
                   baseModalVars, tableModalVars, alerts, refreshCalls, creates, submits, edits>>

\* Sidebar.loadBases after its await
loadBasesSettled ==
    /\ \E f \in fetches :
        /\ f.kind = "bases"
        /\ fetches' = fetches \ {f}
        /\ \/ sbBases' = IF f.mounted
                         THEN OrderByCreatedDesc({b \in dbBases : b.userId = f.userId})
                         ELSE sbBases
           \/ UNCHANGED sbBases
    /\ UNCHANGED <<gridVars, updates, recordModalVars, dbVars, nextId, user, loading,
                   selVars, appDataVars,
                   createBaseModalOpen, createTableModalOpen, sbTables, sbViews,
                   expandedBases, baseModalVars, tableModalVars, alerts,
                   refreshCalls, creates, submits, edits>>

\* Sidebar.loadTables after its await
loadTablesSettled ==
    /\ \E f \in fetches :
        /\ f.kind = "tables"
        /\ fetches' = fetches \ {f}
        /\ \/ sbTables' = IF f.mounted
                          THEN OrderByCreatedAsc({t \in dbTables :
                                   t.baseId = f.id /\ t.userId = f.userId})
                          ELSE sbTables
           \/ UNCHANGED sbTables
    /\ UNCHANGED <<gridVars, updates, recordModalVars, dbVars, nextId, user, loading,
                   selVars, appDataVars,
                   createBaseModalOpen, createTableModalOpen, sbBases, sbViews,
                   expandedBases, baseModalVars, tableModalVars, alerts,
                   refreshCalls, creates, submits, edits>>

\* Sidebar.loadViews after its await
loadViewsSettled ==
    /\ \E f \in fetches :
        /\ f.kind = "views"
        /\ fetches' = fetches \ {f}
        /\ \/ sbViews' = IF f.mounted
                         THEN OrderByCreatedAsc({v \in dbViews :
                                  v.tableId = f.id /\ v.userId = f.userId})
                         ELSE sbViews
           \/ UNCHANGED sbViews
    /\ UNCHANGED <<gridVars, updates, recordModalVars, dbVars, nextId, user, loading,
                   selVars, appDataVars,
                   createBaseModalOpen, createTableModalOpen, sbBases, sbTables,
                   expandedBases, baseModalVars, tableModalVars, alerts,
                   refreshCalls, creates, submits, edits>>

\* GridView.loadData after the await of fields.list: on success the fields
\* are cached and records.list is issued, on failure the catch and finally
\* blocks run
loadDataFieldsSettled ==
    /\ \E f \in fetches :
        /\ f.kind = "fields"
        /\ \/ /\ gridFields' = IF f.mounted
                               THEN OrderByPositionAsc({x \in dbFields :
                                        x.tableId = f.id /\ x.userId = f.userId})
                               ELSE gridFields
              /\ fetches' = (fetches \ {f}) \cup {[f EXCEPT !.kind = "records"]}
              /\ UNCHANGED gridLoading
           \/ /\ fetches' = fetches \ {f}
              /\ gridLoading' = IF f.mounted THEN FALSE ELSE gridLoading
              /\ UNCHANGED gridFields
    /\ UNCHANGED <<gridRecords, editingCell, updates, recordModalVars, dbVars, nextId,
                   user, loading, selVars, appDataVars, createBaseModalOpen,
                   createTableModalOpen, sidebarVars, baseModalVars, tableModalVars,
                   alerts, refreshCalls, creates, submits, edits>>

\* GridView.loadData after the await of records.list, with its finally block
loadDataRecordsSettled ==
    /\ \E f \in fetches :
        /\ f.kind = "records"
        /\ fetches' = fetches \ {f}
        /\ gridLoading' = IF f.mounted THEN FALSE ELSE gridLoading
        /\ \/ gridRecords' = IF f.mounted
                             THEN OrderByCreatedDesc({r \in dbRecords :
                                      r.tableId = f.id /\ r.userId = f.userId})
                             ELSE gridRecords
           \/ UNCHANGED gridRecords
    /\ UNCHANGED <<gridFields, editingCell, updates, recordModalVars, dbVars, nextId,
                   user, loading, selVars, appDataVars, createBaseModalOpen,
                   createTableModalOpen, sidebarVars, baseModalVars, tableModalVars,
                   alerts, refreshCalls, creates, submits, edits>>

----------------------------------------------------------------------------
(* App: opening and closing the modals *)

\* the "Add table" buttons: one under every expanded base row, and the
\* link of the "Select a table" placeholder
AddTableVisible ==
    \/ \E b \in Range(sbBases) : b.id \in expandedBases
    \/ selectedTableId = NoId /\ selectedBaseId # NoId

handleCreateBase ==
    /\ PageActive
    /\ createBaseModalOpen' = TRUE
    /\ UNCHANGED <<gridVars, updates, recordModalVars, dbVars, nextId, user, loading, selVars, appDataVars,
                   createTableModalOpen, sidebarVars, fetches, baseModalVars,
                   tableModalVars, alerts, refreshCalls, creates, submits, edits>>

handleCreateTable ==
    /\ PageActive
    /\ AddTableVisible
    /\ selectedBaseId # NoId
    /\ createTableModalOpen' = TRUE
    /\ UNCHANGED <<gridVars, updates, recordModalVars, dbVars, nextId, user, loading, selVars, appDataVars,
                   createBaseModalOpen, sidebarVars, fetches, baseModalVars,
                   tableModalVars, alerts, refreshCalls, creates, submits, edits>>

\* refreshData: setSelectedBaseId(prev => prev)
refreshData == selectedBaseId' = selectedBaseId

----------------------------------------------------------------------------
(* Remote data service: create calls *)

\* a create call in flight, issued by the handleSubmit of modal who
Create(who, coll, entity) == [who |-> who, coll |-> coll, entity |-> entity]

\* blink.db.<coll>.create(entity) takes effect in the store
DbCreate(c) ==
    /\ dbClock' = dbClock + 1
    /\ dbBases' = IF c.coll = "bases"
                  THEN dbBases \cup {Stored(c.entity, dbClock + 1)} ELSE dbBases
    /\ dbTables' = IF c.coll = "tables"
                   THEN dbTables \cup {Stored(c.entity, dbClock + 1)} ELSE dbTables
    /\ dbFields' = IF c.coll = "fields"
                   THEN dbFields \cup {Stored(c.entity, dbClock + 1)} ELSE dbFields
    /\ dbViews' = IF c.coll = "views"
                  THEN dbViews \cup {Stored(c.entity, dbClock + 1)} ELSE dbViews
    /\ dbRecords' = IF c.coll = "records"
                    THEN dbRecords \cup {Stored(c.entity, dbClock + 1)} ELSE dbRecords

\* description.trim() || undefined
OrUndefined(s) == IF s = EmptyStr THEN UndefinedStr ELSE s
\* description.trim() || null
OrNull(s) == IF s = EmptyStr THEN NullStr ELSE s

----------------------------------------------------------------------------
(* CreateBaseModal *)

BaseSetName(n) ==
    /\ Mounted /\ createBaseModalOpen
    /\ n # baseModal.name
    /\ edits < MaxEdits
    /\ edits' = edits + 1
    /\ baseModal' = [baseModal EXCEPT !.name = n]
    /\ UNCHANGED <<gridVars, updates, recordModalVars, dbVars, nextId, user, loading, selVars, appDataVars,
                   createBaseModalOpen, createTableModalOpen, sidebarVars, fetches,
                   baseSubmit, tableModalVars, alerts, refreshCalls, creates, submits>>

BaseSetDescription(d) ==
    /\ Mounted /\ createBaseModalOpen
    /\ d # baseModal.description
    /\ edits < MaxEdits
    /\ edits' = edits + 1
    /\ baseModal' = [baseModal EXCEPT !.description = d]
    /\ UNCHANGED <<gridVars, updates, recordModalVars, dbVars, nextId, user, loading, selVars, appDataVars,
                   createBaseModalOpen, createTableModalOpen, sidebarVars, fetches,
                   baseSubmit, tableModalVars, alerts, refreshCalls, creates, submits>>

BaseSetSelectedColor(c) ==
    /\ Mounted /\ createBaseModalOpen
    /\ c # baseModal.selectedColor
    /\ edits < MaxEdits
    /\ edits' = edits + 1
    /\ baseModal' = [baseModal EXCEPT !.selectedColor = c]
    /\ UNCHANGED <<gridVars, updates, recordModalVars, dbVars, nextId, user, loading, selVars, appDataVars,
                   createBaseModalOpen, createTableModalOpen, sidebarVars, fetches,
                   baseSubmit, tableModalVars, alerts, refreshCalls, creates, submits>>

\* onOpenChange(false): Cancel, Escape or a click outside the dialog
BaseClose ==
    /\ Mounted /\ createBaseModalOpen
    /\ createBaseModalOpen' = FALSE
    /\ UNCHANGED <<gridVars, updates, recordModalVars, dbVars, nextId, user, loading, selVars, appDataVars,
                   createTableModalOpen, sidebarVars, fetches, baseModalVars,
                   tableModalVars, alerts, refreshCalls, creates, submits, edits>>

\* handleSubmit up to its first await: the submit button is enabled, the
\* name is not blank; the closure keeps the form values of this render
BaseSubmit ==
    /\ Mounted /\ createBaseModalOpen
    /\ ~baseModal.loading
    /\ Trim(baseModal.name) # EmptyStr
    /\ submits < MaxSubmits
    /\ submits' = submits + 1
    /\ baseModal' = [baseModal EXCEPT !.loading = TRUE]
    /\ baseSubmit' = [IdleBaseSubmit EXCEPT !.pc = "me",
                                            !.name = baseModal.name,
                                            !.description = baseModal.description,
                                            !.color = baseModal.selectedColor]
    /\ UNCHANGED <<gridVars, updates, recordModalVars, dbVars, nextId, user, loading, selVars, appDataVars,
                   createBaseModalOpen, createTableModalOpen, sidebarVars, fetches,
                   tableModalVars, alerts, refreshCalls, creates, edits>>

\* a variant of the catch block that deletes the base created so far
BaseCatchRollback(error) ==
    /\ baseModal' = [baseModal EXCEPT !.loading = FALSE]
    /\ baseSubmit' = IdleBaseSubmit
    /\ dbBases' = {b \in dbBases : b.id # baseSubmit.baseId}
    /\ UNCHANGED <<createBaseModalOpen, alerts, refreshCalls, selectedBaseId,
                   dbTables, dbFields, dbViews, dbRecords, dbClock, nextId>>

\* catch and finally of handleSubmit: the error is logged to the console
BaseCatch(error) ==
    /\ baseModal' = [baseModal EXCEPT !.loading = FALSE]
    /\ baseSubmit' = IdleBaseSubmit
    /\ UNCHANGED <<createBaseModalOpen, alerts, refreshCalls, selectedBaseId,
                   dbVars, nextId>>

\* the create call of the base modal that is in flight
BaseCall(coll) == {c \in creates : c.who = "base" /\ c.coll = coll}

\* await blink.auth.me() settles; on success the base create is issued
BaseMeSettled ==
    /\ baseSubmit.pc = "me"
    /\ \/ /\ user # NoUser
          /\ baseSubmit' = [baseSubmit EXCEPT !.pc = "bases.create",
                                              !.user = user, !.baseId = nextId]
          /\ nextId' = nextId + 1
          /\ creates' = creates \cup
                {Create("base", "bases",
                        BaseEntity(nextId, Trim(baseSubmit.name),
                                   OrUndefined(Trim(baseSubmit.description)),
                                   baseSubmit.color, user))}
          /\ UNCHANGED <<baseModal, createBaseModalOpen, alerts, refreshCalls,
                         selectedBaseId, dbVars>>
       \/ /\ \E e \in Errors : BaseCatch(e)
          /\ UNCHANGED creates
    /\ UNCHANGED <<gridVars, updates, recordModalVars, user, loading, selectedTableId, selectedViewId,
                   appDataVars, createTableModalOpen, sidebarVars, fetches,
                   tableModalVars, submits, edits>>

\* await blink.db.bases.create settles; on success the table create is issued
BaseBasesCreateSettled ==
    /\ baseSubmit.pc = "bases.create"
    /\ \E c \in BaseCall("bases") :
        \/ /\ DbCreate(c)
           /\ baseSubmit' = [baseSubmit EXCEPT !.pc = "tables.create",
                                               !.tableId = nextId]
           /\ nextId' = nextId + 1
           /\ creates' = (creates \ {c}) \cup
                 {Create("base", "tables",
                         TableEntity(nextId, baseSubmit.baseId, TableOneStr,
                                     UndefinedStr, baseSubmit.user))}
           /\ UNCHANGED <<baseModal, createBaseModalOpen, alerts, refreshCalls,
                          selectedBaseId>>
        \/ /\ \E e \in Errors : BaseCatch(e)
           /\ creates' = creates \ {c}
    /\ UNCHANGED <<gridVars, updates, recordModalVars, user, loading, selectedTableId, selectedViewId,
                   appDataVars, createTableModalOpen, sidebarVars, fetches,
                   tableModalVars, submits, edits>>

\* the create call of default field i of the base cascade
BaseFieldCreate(i, fieldId) ==
    Create("base", "fields",
           FieldEntity(fieldId, baseSubmit.tableId, BaseDefaultFields[i].name,
                       BaseDefaultFields[i].type, BaseDefaultFields[i].options,
                       BaseDefaultFields[i].position, baseSubmit.user))

\* a variant that issues the creates of all default fields together
BaseTablesCreateSettledAllAtOnce ==
    /\ baseSubmit.pc = "tables.create"
    /\ \E c \in BaseCall("tables") :
        \/ /\ DbCreate(c)
           /\ baseSubmit' = [baseSubmit EXCEPT !.pc = "fields.create",
                                               !.i = Len(BaseDefaultFields)]
           /\ nextId' = nextId + Len(BaseDefaultFields)
           /\ creates' = (creates \ {c}) \cup
                 {BaseFieldCreate(i, nextId + i - 1) : i \in 1..Len(BaseDefaultFields)}
           /\ UNCHANGED <<baseModal, createBaseModalOpen, alerts, refreshCalls,
                          selectedBaseId>>
        \/ /\ \E e \in Errors : BaseCatch(e)
           /\ creates' = creates \ {c}
    /\ UNCHANGED <<gridVars, updates, recordModalVars, user, loading, selectedTableId, selectedViewId,
                   appDataVars, createTableModalOpen, sidebarVars, fetches,
                   tableModalVars, submits, edits>>

\* await blink.db.tables.create settles; on success the loop over the
\* default fields starts and the first field create is issued
BaseTablesCreateSettled ==
    /\ baseSubmit.pc = "tables.create"
    /\ \E c \in BaseCall("tables") :
        \/ /\ DbCreate(c)
           /\ baseSubmit' = [baseSubmit EXCEPT !.pc = "fields.create", !.i = 1]
           /\ nextId' = nextId + 1
           /\ creates' = (creates \ {c}) \cup {BaseFieldCreate(1, nextId)}
           /\ UNCHANGED <<baseModal, createBaseModalOpen, alerts, refreshCalls,
                          selectedBaseId>>
        \/ /\ \E e \in Errors : BaseCatch(e)
           /\ creates' = creates \ {c}
    /\ UNCHANGED <<gridVars, updates, recordModalVars, user, loading, selectedTableId, selectedViewId,
                   appDataVars, createTableModalOpen, sidebarVars, fetches,
                   tableModalVars, submits, edits>>

\* await blink.db.fields.create settles; on success the next field create
\* is issued, or after the last field the view create
BaseFieldsCreateSettled ==
    /\ baseSubmit.pc = "fields.create"
    /\ \E c \in BaseCall("fields") :
        \/ /\ DbCreate(c)
           /\ nextId' = nextId + 1
           /\ IF baseSubmit.i < Len(BaseDefaultFields)
              THEN /\ baseSubmit' = [baseSubmit EXCEPT !.i = baseSubmit.i + 1]
                   /\ creates' = (creates \ {c}) \cup
                         {BaseFieldCreate(baseSubmit.i + 1, nextId)}
              ELSE /\ baseSubmit' = [baseSubmit EXCEPT !.pc = "views.create"]
                   /\ creates' = (creates \ {c}) \cup
                         {Create("base", "views",
                                 ViewEntity(nextId, baseSubmit.tableId, baseSubmit.user))}
           /\ UNCHANGED <<baseModal, createBaseModalOpen, alerts, refreshCalls,
                          selectedBaseId>>
        \/ /\ \E e \in Errors : BaseCatch(e)
           /\ creates' = creates \ {c}
    /\ UNCHANGED <<gridVars, updates, recordModalVars, user, loading, selectedTableId, selectedViewId,
                   appDataVars, createTableModalOpen, sidebarVars, fetches,
                   tableModalVars, submits, edits>>

\* the tail of the try block: the form is cleared, the modal closed, the
\* caller signalled; finally the submitting flag is dropped
BaseSucceed ==
    /\ baseModal' = InitBaseModal
    /\ createBaseModalOpen' = FALSE
    /\ refreshCalls' = [refreshCalls EXCEPT !.base = @ + 1]
    /\ refreshData
    /\ baseSubmit' = IdleBaseSubmit
    /\ UNCHANGED <<alerts, nextId>>

\* await blink.db.views.create settles
BaseViewsCreateSettled ==
    /\ baseSubmit.pc = "views.create"
    /\ \E c \in BaseCall("views") :
        /\ creates' = creates \ {c}
        /\ \/ /\ DbCreate(c)
              /\ BaseSucceed
           \/ \E e \in Errors : BaseCatch(e)
    /\ UNCHANGED <<gridVars, updates, recordModalVars, user, loading, selectedTableId, selectedViewId,
                   appDataVars, createTableModalOpen, sidebarVars, fetches,
                   tableModalVars, submits, edits>>

----------------------------------------------------------------------------
(* CreateTableModal *)

TableSetName(n) ==
    /\ Mounted /\ createTableModalOpen
    /\ n # tableModal.name
    /\ edits < MaxEdits
    /\ edits' = edits + 1
    /\ tableModal' = [tableModal EXCEPT !.name = n]
    /\ UNCHANGED <<gridVars, updates, recordModalVars, dbVars, nextId, user, loading, selVars, appDataVars,
                   createBaseModalOpen, createTableModalOpen, sidebarVars, fetches,
                   baseModalVars, tableSubmit, tableTimers, alerts, refreshCalls,
                   creates, submits>>

TableSetDescription(d) ==
    /\ Mounted /\ createTableModalOpen
    /\ d # tableModal.description
    /\ edits < MaxEdits
    /\ edits' = edits + 1
    /\ tableModal' = [tableModal EXCEPT !.description = d]
    /\ UNCHANGED <<gridVars, updates, recordModalVars, dbVars, nextId, user, loading, selVars, appDataVars,
                   createBaseModalOpen, createTableModalOpen, sidebarVars, fetches,
                   baseModalVars, tableSubmit, tableTimers, alerts, refreshCalls,
                   creates, submits>>

\* onOpenChange(false): Cancel, Escape or a click outside the dialog
TableClose ==
    /\ Mounted /\ createTableModalOpen
    /\ createTableModalOpen' = FALSE
    /\ UNCHANGED <<gridVars, updates, recordModalVars, dbVars, nextId, user, loading, selVars, appDataVars,
                   createBaseModalOpen, sidebarVars, fetches, baseModalVars,
                   tableModalVars, alerts, refreshCalls, creates, submits, edits>>

\* handleSubmit up to its first await: the submit button is enabled, the
\* name is not blank and the baseId prop is not empty; the closure keeps
\* the form values and the baseId prop of this render
TableSubmit ==
    /\ Mounted /\ createTableModalOpen
    /\ ~tableModal.loading
    /\ Trim(tableModal.name) # EmptyStr
    /\ selectedBaseId # NoId
    /\ submits < MaxSubmits
    /\ submits' = submits + 1
    /\ tableModal' = [tableModal EXCEPT !.loading = TRUE]
    /\ tableSubmit' = [IdleTableSubmit EXCEPT !.pc = "me",
                                              !.baseId = selectedBaseId,
                                              !.name = tableModal.name,
                                              !.description = tableModal.description]
    /\ UNCHANGED <<gridVars, updates, recordModalVars, dbVars, nextId, user, loading, selVars, appDataVars,
                   createBaseModalOpen, createTableModalOpen, sidebarVars, fetches,
                   baseModalVars, tableTimers, alerts, refreshCalls, creates, edits>>

\* error instanceof Error ? error.message : 'Unknown error occurred'
ErrorMessage(error) ==
    IF error.isError THEN error.message ELSE "Unknown error occurred"

\* alert(`Failed to create table: ${errorMessage}`)
TableAlert(error) ==
    [text |-> "Failed to create table: ", message |-> ErrorMessage(error)]

\* a variant of the catch block that also closes the modal
TableCatchClosesModal(error) ==
    /\ alerts' = Append(alerts, TableAlert(error))
    /\ tableModal' = [tableModal EXCEPT !.loading = FALSE]
    /\ tableSubmit' = IdleTableSubmit
    /\ createTableModalOpen' = FALSE
    /\ UNCHANGED <<tableTimers, refreshCalls, dbVars, nextId>>

\* catch and finally of handleSubmit: the error is logged and alerted
TableCatch(error) ==
    /\ alerts' = Append(alerts, TableAlert(error))
    /\ tableModal' = [tableModal EXCEPT !.loading = FALSE]
    /\ tableSubmit' = IdleTableSubmit
    /\ UNCHANGED <<createTableModalOpen, tableTimers, refreshCalls, dbVars, nextId>>

\* the create call of the table modal that is in flight
TableCall(coll) == {c \in creates : c.who = "table" /\ c.coll = coll}

\* await blink.auth.me() settles; on success the table create is issued
TableMeSettled ==
    /\ tableSubmit.pc = "me"
    /\ \/ /\ user # NoUser
          /\ tableSubmit' = [tableSubmit EXCEPT !.pc = "tables.create",
                                                !.user = user, !.tableId = nextId]
          /\ nextId' = nextId + 1
          /\ creates' = creates \cup
                {Create("table", "tables",
                        TableEntity(nextId, tableSubmit.baseId, Trim(tableSubmit.name),
                                    OrNull(Trim(tableSubmit.description)), user))}
          /\ UNCHANGED <<tableModal, createTableModalOpen, tableTimers, alerts,
                         refreshCalls, dbVars>>
       \/ /\ \E e \in Errors : TableCatch(e)
          /\ UNCHANGED creates
    /\ UNCHANGED <<gridVars, updates, recordModalVars, user, loading, selVars, appDataVars, createBaseModalOpen,
                   sidebarVars, fetches, baseModalVars, submits, edits>>

\* the create call of default field i of the table cascade
TableFieldCreate(i, fieldId) ==
    Create("table", "fields",
           FieldEntity(fieldId, tableSubmit.tableId, TableDefaultFields[i].name,
                       TableDefaultFields[i].type, NoOptions,
                       TableDefaultFields[i].position, tableSubmit.user))

\* await blink.db.tables.create settles; on success the loop over the
\* default fields starts and the first field create is issued
TableTablesCreateSettled ==
    /\ tableSubmit.pc = "tables.create"
    /\ \E c \in TableCall("tables") :
        \/ /\ DbCreate(c)
           /\ tableSubmit' = [tableSubmit EXCEPT !.pc = "fields.create", !.i = 1]
           /\ nextId' = nextId + 1
           /\ creates' = (creates \ {c}) \cup {TableFieldCreate(1, nextId)}
           /\ UNCHANGED <<tableModal, createTableModalOpen, tableTimers, alerts,
                          refreshCalls>>
        \/ /\ \E e \in Errors : TableCatch(e)
           /\ creates' = creates \ {c}
    /\ UNCHANGED <<gridVars, updates, recordModalVars, user, loading, selVars, appDataVars, createBaseModalOpen,
                   sidebarVars, fetches, baseModalVars, submits, edits>>

\* await blink.db.fields.create settles; on success the 10 ms delay starts
TableFieldsCreateSettled ==
    /\ tableSubmit.pc = "fields.create"
    /\ \E c \in TableCall("fields") :
        /\ creates' = creates \ {c}
        /\ \/ /\ DbCreate(c)
              /\ tableSubmit' = [tableSubmit EXCEPT !.pc = "delay"]
              /\ UNCHANGED <<tableModal, createTableModalOpen, tableTimers, alerts,
                             refreshCalls, nextId>>
           \/ \E e \in Errors : TableCatch(e)
    /\ UNCHANGED <<gridVars, updates, recordModalVars, user, loading, selVars, appDataVars, createBaseModalOpen,
                   sidebarVars, fetches, baseModalVars, submits, edits>>

\* the 10 ms delay after a field create is over: the next field create is
\* issued, or after the last field the view create
TableDelayElapsed ==
    /\ tableSubmit.pc = "delay"
    /\ nextId' = nextId + 1
    /\ IF tableSubmit.i < Len(TableDefaultFields)
       THEN /\ tableSubmit' = [tableSubmit EXCEPT !.pc = "fields.create",
                                                  !.i = tableSubmit.i + 1]
            /\ creates' = creates \cup {TableFieldCreate(tableSubmit.i + 1, nextId)}
       ELSE /\ tableSubmit' = [tableSubmit EXCEPT !.pc = "views.create"]
            /\ creates' = creates \cup
                  {Create("table", "views",
                          ViewEntity(nextId, tableSubmit.tableId, tableSubmit.user))}
    /\ UNCHANGED <<gridVars, updates, recordModalVars, dbVars, user, loading, selVars, appDataVars, createBaseModalOpen,
                   createTableModalOpen, sidebarVars, fetches, baseModalVars,
                   tableModal, tableTimers, alerts, refreshCalls, submits, edits>>

\* a variant of the tail that signals the caller at once and again through
\* the timer
TableSucceedSignalsTwice ==
    /\ tableModal' = InitTableModal
    /\ createTableModalOpen' = FALSE
    /\ tableTimers' = tableTimers \cup {tableSubmit.tableId}
    /\ tableSubmit' = IdleTableSubmit
    /\ refreshCalls' = [refreshCalls EXCEPT !.table = @ + 1]
    /\ UNCHANGED <<alerts, nextId>>

\* the tail of the try block: the form is cleared, the modal closed, the
\* signal to the caller scheduled 100 ms later; finally the submitting flag
\* is dropped
TableSucceed ==
    /\ tableModal' = InitTableModal
    /\ createTableModalOpen' = FALSE
    /\ tableTimers' = tableTimers \cup {tableSubmit.tableId}
    /\ tableSubmit' = IdleTableSubmit
    /\ UNCHANGED <<alerts, refreshCalls, nextId>>

\* await blink.db.views.create settles
TableViewsCreateSettled ==
    /\ tableSubmit.pc = "views.create"
    /\ \E c \in TableCall("views") :
        /\ creates' = creates \ {c}
        /\ \/ /\ DbCreate(c)
              /\ TableSucceed
           \/ \E e \in Errors : TableCatch(e)
    /\ UNCHANGED <<gridVars, updates, recordModalVars, user, loading, selVars, appDataVars, createBaseModalOpen,
                   sidebarVars, fetches, baseModalVars, submits, edits>>

\* the 100 ms timer of a successful table cascade fires: onSuccess()
TableTimerFires ==
    /\ \E id \in tableTimers : tableTimers' = tableTimers \ {id}
    /\ refreshCalls' = [refreshCalls EXCEPT !.table = @ + 1]
    /\ refreshData
    /\ UNCHANGED <<gridVars, updates, recordModalVars, dbVars, nextId, user, loading, selectedTableId, selectedViewId,
                   appDataVars, createBaseModalOpen, createTableModalOpen,
                   sidebarVars, fetches, baseModalVars, tableModal, tableSubmit,
                   alerts, creates, submits, edits>>

----------------------------------------------------------------------------
(* GridView: the editing session *)

\* the grid renders its rows: GridView is mounted and not loading
GridShown == Mounted /\ selectedTableId # NoId /\ ~gridLoading

\* the records and fields of the rendered rows
ShownRecordIds == {r.id : r \in Range(gridRecords)}
ShownFieldIds == {f.id : f \in Range(gridFields)}
CachedRecord(recordId) == CHOOSE r \in Range(gridRecords) : r.id = recordId
CachedField(fieldId) == CHOOSE f \in Range(gridFields) : f.id = fieldId

\* data[field.id] || ''
CellValue(dataString, fieldId) ==
    LET data == parseRecordData(dataString)
    IN IF fieldId \in DOMAIN data THEN data[fieldId] ELSE ""

\* the cell under edit is rendered as an Input
EditingRendered ==
    /\ GridShown
    /\ editingCell.recordId \in ShownRecordIds
    /\ editingCell.fieldId \in ShownFieldIds
    /\ CachedField(editingCell.fieldId).type # "checkbox"

\* click on a read-only cell: setEditingCell({ recordId, fieldId })
beginEdit(recordId, fieldId) ==
    /\ PageActive /\ GridShown
    /\ recordId \in ShownRecordIds
    /\ fieldId \in ShownFieldIds
    /\ CachedField(fieldId).type # "checkbox"
    /\ editingCell # [recordId |-> recordId, fieldId |-> fieldId]
    /\ editingCell' = [recordId |-> recordId, fieldId |-> fieldId]
    /\ UNCHANGED <<gridFields, gridRecords, gridLoading, updates, recordModalVars,
                   dbVars, nextId, user, loading, selVars, appDataVars,
                   createBaseModalOpen, createTableModalOpen, sidebarVars, fetches,
                   baseModalVars, tableModalVars, alerts, refreshCalls, creates,
                   submits, edits>>

\* a variant of endEdit that takes the value of the cell out of the cached
\* record
endEditRollsBack ==
    /\ EditingRendered
    /\ editingCell' = NoCell
    /\ gridRecords' =
          [i \in 1..Len(gridRecords) |->
              IF gridRecords[i].id = editingCell.recordId
              THEN LET data == parseRecordData(gridRecords[i].data)
                   IN [gridRecords[i] EXCEPT !.data =
                          JSONstringify([k \in DOMAIN data \ {editingCell.fieldId}
                                            |-> data[k]])]
              ELSE gridRecords[i]]
    /\ UNCHANGED <<gridFields, gridLoading, updates, recordModalVars,
                   dbVars, nextId, user, loading, selVars, appDataVars,
                   createBaseModalOpen, createTableModalOpen, sidebarVars, fetches,
                   baseModalVars, tableModalVars, alerts, refreshCalls, creates,
                   submits, edits>>

\* blur of the Input, or Enter or Escape in it: setEditingCell(null)
endEdit ==
    /\ EditingRendered
    /\ editingCell' = NoCell
    /\ UNCHANGED <<gridFields, gridRecords, gridLoading, updates, recordModalVars,
                   dbVars, nextId, user, loading, selVars, appDataVars,
                   createBaseModalOpen, createTableModalOpen, sidebarVars, fetches,
                   baseModalVars, tableModalVars, alerts, refreshCalls, creates,
                   submits, edits>>

\* a records.update call in flight: sent, then resolved or rejected by the
\* remote service, then awaited by updateCellValue; no tells the calls of
\* one page apart, alone says that no other update call has been in flight
\* together with it
Update(recordId, fieldId, value, data) ==
    [kind |-> "update", no |-> edits + 1, recordId |-> recordId, fieldId |-> fieldId,
     value |-> value, data |-> data, stage |-> "sent", mounted |-> TRUE,
     alone |-> updates = {}]

\* a variant of updateCellValue that sends the new value alone
updateCellValueOnlyField(recordId, fieldId, value) ==
    /\ PageActive /\ GridShown
    /\ recordId \in ShownRecordIds
    /\ fieldId \in ShownFieldIds
    /\ \/ CachedField(fieldId).type = "checkbox"
       \/ editingCell = [recordId |-> recordId, fieldId |-> fieldId]
    /\ value # CellValue(CachedRecord(recordId).data, fieldId)
    /\ edits < MaxEdits
    /\ edits' = edits + 1
    /\ updates' = {[u EXCEPT !.alone = FALSE] : u \in updates}
                     \cup {Update(recordId, fieldId, value,
                                  JSONstringify(Spread(EmptyMap, fieldId, value)))}
    /\ UNCHANGED <<gridVars, recordModalVars, dbVars, nextId, user, loading, selVars,
                   appDataVars, createBaseModalOpen, createTableModalOpen,
                   sidebarVars, fetches, baseModalVars, tableModalVars, alerts,
                   refreshCalls, creates, submits>>

\* updateCellValue up to its await: onChange of the Input of the cell under
\* edit (or of a checkbox); the record is looked up in the cached records,
\* its mapping is merged with the new value and sent whole
updateCellValue(recordId, fieldId, value) ==
    /\ PageActive /\ GridShown
    /\ recordId \in ShownRecordIds
    /\ fieldId \in ShownFieldIds
    /\ \/ CachedField(fieldId).type = "checkbox"
       \/ editingCell = [recordId |-> recordId, fieldId |-> fieldId]
    /\ value # CellValue(CachedRecord(recordId).data, fieldId)
    /\ edits < MaxEdits
    /\ edits' = edits + 1
    /\ LET currentData == parseRecordData(CachedRecord(recordId).data)
           newData == Spread(currentData, fieldId, value)
       IN updates' = {[u EXCEPT !.alone = FALSE] : u \in updates}
                        \cup {Update(recordId, fieldId, value, JSONstringify(newData))}
    /\ UNCHANGED <<gridVars, recordModalVars, dbVars, nextId, user, loading, selVars,
                   appDataVars, createBaseModalOpen, createTableModalOpen,
                   sidebarVars, fetches, baseModalVars, tableModalVars, alerts,
                   refreshCalls, creates, submits>>

\* blink.db.records.update(recordId, { data }) takes effect in the store, or
\* fails
recordsUpdateApplied ==
    /\ \E u \in updates :
        /\ u.stage = "sent"
        /\ \/ /\ \E r \in dbRecords : r.id = u.recordId
              /\ dbRecords' = {IF r.id = u.recordId THEN [r EXCEPT !.data = u.data]
                               ELSE r : r \in dbRecords}
              /\ updates' = (updates \ {u}) \cup {[u EXCEPT !.stage = "resolved"]}
           \/ /\ updates' = (updates \ {u}) \cup {[u EXCEPT !.stage = "rejected"]}
              /\ UNCHANGED dbRecords
    /\ UNCHANGED <<gridVars, recordModalVars, dbBases, dbTables, dbFields, dbViews,
                   dbClock, nextId, user, loading, selVars, appDataVars,
                   createBaseModalOpen, createTableModalOpen, sidebarVars, fetches,
                   baseModalVars, tableModalVars, alerts, refreshCalls, creates,
                   submits, edits>>

\* a variant of the continuation that also shows the failure to the user
updateCellValueSettledAlerts ==
    /\ \E u \in updates :
        /\ u.stage \in {"resolved", "rejected"}
        /\ updates' = updates \ {u}
        /\ gridRecords' =
              IF u.stage = "resolved" /\ u.mounted
              THEN [i \in 1..Len(gridRecords) |->
                      IF gridRecords[i].id = u.recordId
                      THEN [gridRecords[i] EXCEPT !.data = u.data]
                      ELSE gridRecords[i]]
              ELSE gridRecords
        /\ alerts' = IF u.stage = "rejected"
                     THEN Append(alerts, [message |-> "Failed to update cell"])
                     ELSE alerts
    /\ UNCHANGED <<gridFields, gridLoading, editingCell, recordModalVars, dbVars,
                   nextId, user, loading, selVars, appDataVars, createBaseModalOpen,
                   createTableModalOpen, sidebarVars, fetches, baseModalVars,
                   tableModalVars, refreshCalls, creates, submits, edits>>

\* updateCellValue after its await: on success the cached record gets the
\* mapping that was sent, on failure the catch block logs
updateCellValueSettled ==
    /\ \E u \in updates :
        /\ u.stage \in {"resolved", "rejected"}
        /\ updates' = updates \ {u}
        /\ gridRecords' =
              IF u.stage = "resolved" /\ u.mounted
              THEN [i \in 1..Len(gridRecords) |->
                      IF gridRecords[i].id = u.recordId
                      THEN [gridRecords[i] EXCEPT !.data = u.data]
                      ELSE gridRecords[i]]
              ELSE gridRecords
    /\ UNCHANGED <<gridFields, gridLoading, editingCell, recordModalVars, dbVars,
                   nextId, user, loading, selVars, appDataVars, createBaseModalOpen,
                   createTableModalOpen, sidebarVars, fetches, baseModalVars,
                   tableModalVars, alerts, refreshCalls, creates, submits, edits>>

----------------------------------------------------------------------------
(* CreateRecordModal *)

\* the "Add record" buttons of the grid: handleAddRecord, then the effect of
\* the modal (open && tableId): loadFields up to its await of me()
handleAddRecord ==
    /\ PageActive /\ GridShown
    /\ selectedTableId # NoId
    /\ CanIssue({Fetch("me", selectedTableId, NoUser)})
    /\ createRecordModalOpen' = TRUE
    /\ fetches' = fetches \cup {Fetch("me", selectedTableId, NoUser)}
    /\ UNCHANGED <<gridVars, updates, recordModal, recordSubmit, dbVars, nextId,
                   user, loading, selVars, appDataVars, createBaseModalOpen,
                   createTableModalOpen, sidebarVars, baseModalVars, tableModalVars,
                   alerts, refreshCalls, creates, submits, edits>>

\* onOpenChange(false): Cancel, Escape or a click outside the dialog
RecordClose ==
    /\ Mounted /\ createRecordModalOpen
    /\ createRecordModalOpen' = FALSE
    /\ UNCHANGED <<gridVars, updates, recordModal, recordSubmit, dbVars, nextId,
                   user, loading, selVars, appDataVars, createBaseModalOpen,
                   createTableModalOpen, sidebarVars, fetches, baseModalVars,
                   tableModalVars, alerts, refreshCalls, creates, submits, edits>>

\* loadFields after its await of me(): on success fields.list is issued for
\* the table the modal was opened for, on failure the catch block logs
loadFieldsMeSettled ==
    /\ \E f \in fetches :
        /\ f.kind = "me"
        /\ \/ /\ user # NoUser
              /\ fetches' = (fetches \ {f}) \cup
                               {[f EXCEPT !.kind = "modalFields", !.userId = user]}
           \/ fetches' = fetches \ {f}
    /\ UNCHANGED <<gridVars, updates, recordModalVars, dbVars, nextId,
                   user, loading, selVars, appDataVars, createBaseModalOpen,
                   createTableModalOpen, sidebarVars, baseModalVars, tableModalVars,
                   alerts, refreshCalls, creates, submits, edits>>

\* the form values loadFields sets for the listed fields
InitialData(fields) ==
    [id \in {f.id : f \in Range(fields)} |->
        IF (CHOOSE f \in Range(fields) : f.id = id).type = "checkbox"
        THEN "false" ELSE ""]

\* loadFields after its await of fields.list
loadFieldsSettled ==
    /\ \E f \in fetches :
        /\ f.kind = "modalFields"
        /\ fetches' = fetches \ {f}
        /\ \/ LET result == OrderByPositionAsc({x \in dbFields :
                                x.tableId = f.id /\ x.userId = f.userId})
              IN recordModal' = IF f.mounted
                                THEN [recordModal EXCEPT !.fields = result,
                                                         !.formData = InitialData(result)]
                                ELSE recordModal
           \/ UNCHANGED recordModal
    /\ UNCHANGED <<gridVars, updates, createRecordModalOpen, recordSubmit, dbVars,
                   nextId, user, loading, selVars, appDataVars, createBaseModalOpen,
                   createTableModalOpen, sidebarVars, baseModalVars, tableModalVars,
                   alerts, refreshCalls, creates, submits, edits>>

\* updateFieldValue: an input of the form changes
updateFieldValue(fieldId, value) ==
    /\ Mounted /\ createRecordModalOpen
    /\ fieldId \in {f.id : f \in Range(recordModal.fields)}
    /\ value # (IF fieldId \in DOMAIN recordModal.formData
                THEN recordModal.formData[fieldId] ELSE "")
    /\ edits < MaxEdits
    /\ edits' = edits + 1
    /\ recordModal' = [recordModal EXCEPT
                          !.formData = Spread(recordModal.formData, fieldId, value)]
    /\ UNCHANGED <<gridVars, updates, createRecordModalOpen, recordSubmit, dbVars,
                   nextId, user, loading, selVars, appDataVars, createBaseModalOpen,
                   createTableModalOpen, sidebarVars, fetches, baseModalVars,
                   tableModalVars, alerts, refreshCalls, creates, submits>>

\* handleSubmit up to its first await: the submit button is enabled (not
\* loading, some field listed); the closure keeps tableId and formData
RecordSubmit ==
    /\ Mounted /\ createRecordModalOpen
    /\ ~recordModal.loading
    /\ recordModal.fields # << >>
    /\ selectedTableId # NoId
    /\ submits < MaxSubmits
    /\ submits' = submits + 1
    /\ recordModal' = [recordModal EXCEPT !.loading = TRUE]
    /\ recordSubmit' = [pc |-> "me", tableId |-> selectedTableId,
                        formData |-> recordModal.formData]
    /\ UNCHANGED <<gridVars, updates, createRecordModalOpen, dbVars, nextId, user,
                   loading, selVars, appDataVars, createBaseModalOpen,
                   createTableModalOpen, sidebarVars, fetches, baseModalVars,
                   tableModalVars, alerts, refreshCalls, creates, edits>>

\* a variant of the error path without the finally block
RecordCatchKeepsLoading(error) ==
    /\ UNCHANGED recordModal
    /\ recordSubmit' = IdleRecordSubmit
    /\ UNCHANGED <<createRecordModalOpen, alerts, refreshCalls, selectedBaseId,
                   dbVars, nextId>>

\* catch and finally of handleSubmit: the error is logged to the console
RecordCatch(error) ==
    /\ recordModal' = [recordModal EXCEPT !.loading = FALSE]
    /\ recordSubmit' = IdleRecordSubmit
    /\ UNCHANGED <<createRecordModalOpen, alerts, refreshCalls, selectedBaseId,
                   dbVars, nextId>>

\* the create call of the record modal that is in flight
RecordCall == {c \in creates : c.who = "record"}

\* a variant in which a rejected me() is not looked at
RecordMeSettledIgnoresRejection ==
    /\ recordSubmit.pc = "me"
    /\ recordSubmit' = [recordSubmit EXCEPT !.pc = "records.create"]
    /\ nextId' = nextId + 1
    /\ creates' = creates \cup
          {Create("record", "records",
                  RecordEntity(nextId, recordSubmit.tableId,
                               JSONstringify(recordSubmit.formData), user))}
    /\ UNCHANGED <<recordModal, createRecordModalOpen, alerts, refreshCalls,
                   selectedBaseId, dbVars>>
    /\ UNCHANGED <<gridVars, updates, user, loading, selectedTableId, selectedViewId,
                   appDataVars, createBaseModalOpen, createTableModalOpen,
                   sidebarVars, fetches, baseModalVars, tableModalVars, submits, edits>>

\* await blink.auth.me() settles; on success the record create is issued
RecordMeSettled ==
    /\ recordSubmit.pc = "me"
    /\ \/ /\ user # NoUser
          /\ recordSubmit' = [recordSubmit EXCEPT !.pc = "records.create"]
          /\ nextId' = nextId + 1
          /\ creates' = creates \cup
                {Create("record", "records",
                        RecordEntity(nextId, recordSubmit.tableId,
                                     JSONstringify(recordSubmit.formData), user))}
          /\ UNCHANGED <<recordModal, createRecordModalOpen, alerts, refreshCalls,
                         selectedBaseId, dbVars>>
       \/ /\ \E e \in Errors : RecordCatch(e)
          /\ UNCHANGED creates
    /\ UNCHANGED <<gridVars, updates, user, loading, selectedTableId, selectedViewId,
                   appDataVars, createBaseModalOpen, createTableModalOpen,
                   sidebarVars, fetches, baseModalVars, tableModalVars, submits, edits>>

\* the tail of the try block: the form mapping is cleared, the modal closed,
\* the caller signalled; finally the submitting flag is dropped
RecordSucceed ==
    /\ recordModal' = [recordModal EXCEPT !.formData = EmptyMap, !.loading = FALSE]
    /\ createRecordModalOpen' = FALSE
    /\ refreshCalls' = [refreshCalls EXCEPT !.record = @ + 1]
    /\ refreshData
    /\ recordSubmit' = IdleRecordSubmit
    /\ UNCHANGED <<alerts, nextId>>

\* await blink.db.records.create settles
RecordCreateSettled ==
    /\ recordSubmit.pc = "records.create"
    /\ \E c \in RecordCall :
        /\ creates' = creates \ {c}
        /\ \/ /\ DbCreate(c)
              /\ RecordSucceed
           \/ \E e \in Errors : RecordCatch(e)
    /\ UNCHANGED <<gridVars, updates, user, loading, selectedTableId, selectedViewId,
                   appDataVars, createBaseModalOpen, createTableModalOpen,
                   sidebarVars, fetches, baseModalVars, tableModalVars, submits, edits>>

----------------------------------------------------------------------------
(* The selection machine with its loaders *)

NextSelection ==
    \/ \E u \in Users \cup {NoUser} : SessionResolved(u)
    \/ \E b \in BaseIds : ClickBase(b)
    \/ \E t \in TableIds : ClickTable(t)
    \/ \E v \in ViewIds : ClickView(v)
    \/ loadCurrentBaseSettled
    \/ loadCurrentTableSettled
    \/ loadBasesSettled
    \/ loadTablesSettled
    \/ loadViewsSettled
    \/ loadDataFieldsSettled
    \/ loadDataRecordsSettled

SpecSelection == Init /\ [][NextSelection]_vars

----------------------------------------------------------------------------
(* The creation cascades with what they need of the App and the Sidebar *)

NextCascade ==
    \/ \E u \in Users \cup {NoUser} : SessionResolved(u)
    \/ loadBasesSettled
    \/ \E b \in BaseIds : ClickBase(b)
    \/ handleCreateBase
    \/ \E n \in Names : BaseSetName(n)
    \/ \E d \in Descriptions : BaseSetDescription(d)
    \/ \E k \in 1..NumColors : BaseSetSelectedColor(BASE_COLORS[k])
    \/ BaseClose
    \/ BaseSubmit
    \/ BaseMeSettled
    \/ BaseBasesCreateSettled
    \/ BaseTablesCreateSettled
    \/ BaseFieldsCreateSettled
    \/ BaseViewsCreateSettled
    \/ handleCreateTable
    \/ \E n \in Names : TableSetName(n)
    \/ \E d \in Descriptions : TableSetDescription(d)
    \/ TableClose
    \/ TableSubmit
    \/ TableMeSettled
    \/ TableTablesCreateSettled
    \/ TableFieldsCreateSettled
    \/ TableDelayElapsed
    \/ TableViewsCreateSettled
    \/ TableTimerFires

SpecCascade == Init /\ [][NextCascade]_vars

----------------------------------------------------------------------------
(* The grid and the record modal. The page has been opened on the filled   *)
(* store by user u1, who has clicked the first base and one of its tables; *)
(* every loader has resolved.                                              *)

GridUser == "u1"
GridBase == CHOOSE b \in FilledStore.bases : b.id = 1
\* the table of the base's own cascade, with three fields and two records
GridTable == CHOOSE t \in FilledStore.tables : t.id = 2
\* the table added by CreateTableModal, with two fields and one record
RecordTable == CHOOSE t \in FilledStore.tables : t.id = 7

\* the App, the sidebar and the modals once the table has been clicked
PageOpenedOn(store, table) ==
    /\ dbBases = store.bases
    /\ dbTables = store.tables
    /\ dbFields = store.fields
    /\ dbViews = store.views
    /\ dbRecords = store.records
    /\ dbClock = store.clock
    /\ nextId = store.nextId
    /\ user = GridUser
    /\ loading = FALSE
    /\ selectedBaseId = GridBase.id
    /\ selectedTableId = table.id
    /\ selectedViewId = NoId
    /\ currentBase = GridBase
    /\ currentTable = table
    /\ createBaseModalOpen = FALSE
    /\ createTableModalOpen = FALSE
    /\ createRecordModalOpen = FALSE
    /\ sbBases = OrderByCreatedDesc({b \in store.bases : b.userId = GridUser})
    /\ sbTables = OrderByCreatedAsc({t \in store.tables :
                       t.baseId = GridBase.id /\ t.userId = GridUser})
    /\ sbViews = OrderByCreatedAsc({v \in store.views :
                      v.tableId = table.id /\ v.userId = GridUser})
    /\ expandedBases = {GridBase.id}
    /\ editingCell = NoCell
    /\ updates = {}
    /\ recordModal = InitRecordModal
    /\ recordSubmit = IdleRecordSubmit
    /\ baseModal = InitBaseModal
    /\ baseSubmit = IdleBaseSubmit
    /\ tableModal = InitTableModal
    /\ tableSubmit = IdleTableSubmit
    /\ tableTimers = {}
    /\ alerts = << >>
    /\ refreshCalls = [base |-> 0, table |-> 0, record |-> 0]
    /\ creates = {}
    /\ submits = 0
    /\ edits = 0

\* the grid is loading: its fields.list call is in flight
GridLoadingOn(store, table) ==
    /\ PageOpenedOn(store, table)
    /\ fetches = loadData(table.id, GridUser)
    /\ gridFields = << >>
    /\ gridRecords = << >>
    /\ gridLoading = TRUE

\* loadData has resolved
GridOpenedOn(store, table) ==
    /\ PageOpenedOn(store, table)
    /\ fetches = {}
    /\ gridFields = OrderByPositionAsc({f \in store.fields :
                        f.tableId = table.id /\ f.userId = GridUser})
    /\ gridRecords = OrderByCreatedDesc({r \in store.records :
                         r.tableId = table.id /\ r.userId = GridUser})
    /\ gridLoading = FALSE

GridOpened(table) == GridOpenedOn(FilledStore, table)

InitGrid == GridOpened(GridTable)

InitRecord == GridOpened(RecordTable)

RecordIds == {r.id : r \in dbRecords}
FieldIds == {f.id : f \in dbFields}

\* the grid: editing cells and switching to another table, whose fields and
\* records resolve while the other list calls of the switch are pending
NextGrid ==
    \/ \E t \in TableIds : ClickTable(t)
    \/ loadDataFieldsSettled
    \/ loadDataRecordsSettled
    \/ \E r \in RecordIds : \E f \in FieldIds : beginEdit(r, f)
    \/ endEdit
    \/ \E r \in RecordIds : \E f \in FieldIds : \E v \in CellValues :
          updateCellValue(r, f, v)
    \/ recordsUpdateApplied
    \/ updateCellValueSettled

SpecGrid == InitGrid /\ [][NextGrid]_vars

\* the grid of one table: editing cells and adding records
NextRecord ==
    \/ \E r \in RecordIds : \E f \in FieldIds : beginEdit(r, f)
    \/ endEdit
    \/ \E r \in RecordIds : \E f \in FieldIds : \E v \in CellValues :
          updateCellValue(r, f, v)
    \/ recordsUpdateApplied
    \/ updateCellValueSettled
    \/ handleAddRecord
    \/ RecordClose
    \/ loadFieldsMeSettled
    \/ loadFieldsSettled
    \/ \E f \in FieldIds : \E v \in CellValues : updateFieldValue(f, v)
    \/ RecordSubmit
    \/ RecordMeSettled
    \/ RecordCreateSettled

SpecRecord == InitRecord /\ [][NextRecord]_vars

\* the three creation modals of a page that shows a table, and signing out;
\* the dialog of the table modal is left by a successful creation only
NextAuth ==
    \/ handleLogout
    \/ handleCreateBase
    \/ \E n \in Names : BaseSetName(n)
    \/ BaseClose
    \/ BaseSubmit
    \/ BaseMeSettled
    \/ BaseBasesCreateSettled
    \/ BaseTablesCreateSettled
    \/ BaseFieldsCreateSettled
    \/ BaseViewsCreateSettled
    \/ handleCreateTable
    \/ \E n \in Names : TableSetName(n)
    \/ TableSubmit
    \/ TableMeSettled
    \/ TableTablesCreateSettled
    \/ TableFieldsCreateSettled
    \/ TableDelayElapsed
    \/ TableViewsCreateSettled
    \/ TableTimerFires
    \/ handleAddRecord
    \/ RecordClose
    \/ loadFieldsMeSettled
    \/ loadFieldsSettled
    \/ RecordSubmit
    \/ RecordMeSettled
    \/ RecordCreateSettled

SpecAuth == InitRecord /\ [][NextAuth]_vars

----------------------------------------------------------------------------
(* Switching tables. The user has clicked the base's first table and then  *)
(* its second one; the calls of App and Sidebar have resolved and both     *)
(* loadData calls of the grid, which stays mounted, are in flight.         *)

InitSwitch ==
    /\ PageOpenedOn(FilledStore, RecordTable)
    /\ fetches = loadData(GridTable.id, GridUser) \cup loadData(RecordTable.id, GridUser)
    /\ gridFields = << >>
    /\ gridRecords = << >>
    /\ gridLoading = TRUE

NextSwitch ==
    \/ \E t \in TableIds : ClickTable(t)
    \/ loadCurrentTableSettled
    \/ loadViewsSettled
    \/ loadDataFieldsSettled
    \/ loadDataRecordsSettled
    \/ \E r \in RecordIds : \E f \in FieldIds : beginEdit(r, f)
    \/ endEdit

SpecSwitch == InitSwitch /\ [][NextSwitch]_vars

----------------------------------------------------------------------------
(* Submissions under fair scheduling: every remote call in flight is       *)
(* eventually answered and every timer eventually fires. The user opens    *)
(* the three modals on the loaded page and submits their forms; the base   *)
(* dialog can be dismissed while its cascade runs, so that the cascades of *)
(* different modals overlap.                                               *)

NextSubmit ==
    \/ handleCreateBase
    \/ \E n \in Names : BaseSetName(n)
    \/ BaseClose
    \/ BaseSubmit
    \/ BaseMeSettled
    \/ BaseBasesCreateSettled
    \/ BaseTablesCreateSettled
    \/ BaseFieldsCreateSettled
    \/ BaseViewsCreateSettled
    \/ handleCreateTable
    \/ \E n \in Names : TableSetName(n)
    \/ TableSubmit
    \/ TableMeSettled
    \/ TableTablesCreateSettled
    \/ TableFieldsCreateSettled
    \/ TableDelayElapsed
    \/ TableViewsCreateSettled
    \/ TableTimerFires
    \/ handleAddRecord
    \/ loadFieldsMeSettled
    \/ loadFieldsSettled
    \/ RecordSubmit
    \/ RecordMeSettled
    \/ RecordCreateSettled

\* the promises of the SDK settle and the timers of the page fire
CallsSettle ==
    /\ WF_vars(BaseMeSettled)
    /\ WF_vars(BaseBasesCreateSettled)
    /\ WF_vars(BaseTablesCreateSettled)
    /\ WF_vars(BaseFieldsCreateSettled)
    /\ WF_vars(BaseViewsCreateSettled)
    /\ WF_vars(TableMeSettled)
    /\ WF_vars(TableTablesCreateSettled)
    /\ WF_vars(TableFieldsCreateSettled)
    /\ WF_vars(TableDelayElapsed)
    /\ WF_vars(TableViewsCreateSettled)
    /\ WF_vars(RecordMeSettled)
    /\ WF_vars(RecordCreateSettled)

SpecSubmit == InitRecord /\ [][NextSubmit]_vars /\ CallsSettle

----------------------------------------------------------------------------
(* Rendering. The store is shared with whatever else writes to it, so the  *)
(* page may find payloads that JSON.stringify did not produce.             *)

\* a string that is not JSON text
Malformed == [text |-> "{"]

\* JSON.parse(str) throws a SyntaxError
JSONparseThrows(str) == "json" \notin DOMAIN str

\* the string is undefined: 'field.options ? ... : []' takes the else branch
IsUndefined(str) == "undefined" \in DOMAIN str

\* what a render function returns, or that it threw
Thrown == [threw |-> TRUE]
Nothing == [threw |-> FALSE, element |-> "null"]
BadgeOf(text) == [threw |-> FALSE, element |-> "Badge", text |-> text]
TextOf(text) == [threw |-> FALSE, element |-> "text", text |-> text]
InputOf(text) == [threw |-> FALSE, element |-> "Input", value |-> text]
SelectOf(options, value) ==
    [threw |-> FALSE, element |-> "Select", options |-> options, value |-> value]

\* a variant of the lookup that matches every option
MatchingAny(options, data, fieldId) == 1..Len(options)

\* options.find((opt) => opt.id === value): the places of the matching options
Matching(options, data, fieldId) ==
    {i \in 1..Len(options) : fieldId \in DOMAIN data /\ options[i].id = data[fieldId]}

\* GridView.renderCellValue for the field types the cascades create
renderCellValue(record, field) ==
    LET data == parseRecordData(record.data)
    IN IF field.type = "select"
       THEN IF IsUndefined(field.options)
            THEN Nothing
            ELSE IF JSONparseThrows(field.options)
                 THEN Thrown
                 ELSE LET options == JSONparse(field.options)
                          found == Matching(options, data, field.id)
                      IN IF found = {}
                         THEN Nothing
                         ELSE BadgeOf(options[CHOOSE i \in found :
                                                  \A j \in found : i <= j].name)
       ELSE TextOf(CellValue(record.data, field.id))

\* GridView.renderEditableCell
renderEditableCell(record, field) ==
    IF editingCell.recordId = record.id /\ editingCell.fieldId = field.id
    THEN InputOf(CellValue(record.data, field.id))
    ELSE renderCellValue(record, field)

\* CreateRecordModal.renderFieldInput for the field types the cascades create
renderFieldInput(field) ==
    LET value == IF field.id \in DOMAIN recordModal.formData
                 THEN recordModal.formData[field.id] ELSE ""
    IN IF field.type = "select"
       THEN IF IsUndefined(field.options)
            THEN SelectOf(<< >>, value)
            ELSE IF JSONparseThrows(field.options)
                 THEN Thrown
                 ELSE SelectOf(JSONparse(field.options), value)
       ELSE InputOf(value)

\* rendering the rows of the grid throws
GridRenderThrows ==
    /\ GridShown
    /\ \E r \in Range(gridRecords) : \E f \in Range(gridFields) :
          renderEditableCell(r, f).threw

\* rendering the record form throws
FormRenderThrows ==
    /\ Mounted /\ createRecordModalOpen
    /\ \E f \in Range(recordModal.fields) : renderFieldInput(f).threw

\* React has not removed the tree on an error thrown while rendering
PageRenders == ~GridRenderThrows /\ ~FormRenderThrows

\* option lists and record mappings the store may hold for the base's table
OptionPayloads ==
    {NoOptions, JSONstringify(StatusOptions), JSONstringify(<< >>), Malformed}

DataPayloads ==
    {JSONstringify((3 :> "x") @@ (4 :> "y") @@ (5 :> "todo")),
     JSONstringify((3 :> "x") @@ (4 :> "y") @@ (5 :> "z")),
     JSONstringify((3 :> "x") @@ (4 :> "y")),
     Malformed}

\* the filled store with these payloads in the Status field and the first
\* record of the base's table
StoreWith(options, data) ==
    [FilledStore EXCEPT
        !.fields = {IF f.tableId = GridTable.id /\ f.type = "select"
                    THEN [f EXCEPT !.options = options] ELSE f : f \in @},
        !.records = {IF r.id = 23 THEN [r EXCEPT !.data = data] ELSE r : r \in @}]

RenderStores == {StoreWith(o, d) : o \in OptionPayloads, d \in DataPayloads}

InitRender == \E store \in RenderStores : GridLoadingOn(store, GridTable)

NextRender ==
    \/ loadDataFieldsSettled
    \/ loadDataRecordsSettled
    \/ PageRenders /\ \E r \in RecordIds : \E f \in FieldIds : beginEdit(r, f)
    \/ PageRenders /\ endEdit
    \/ PageRenders /\ handleAddRecord
    \/ PageRenders /\ RecordClose
    \/ loadFieldsMeSettled
    \/ loadFieldsSettled
    \/ PageRenders /\ \E f \in FieldIds : \E v \in CellValues : updateFieldValue(f, v)

SpecRender == InitRender /\ [][NextRender]_vars

\* signing out and in again while bases, tables and views are selected
NextSession ==
    \/ NextSelection
    \/ handleLogout
    \/ \E u \in Users : SignedIn(u)

SpecSession == Init /\ [][NextSession]_vars

----------------------------------------------------------------------------
(* Selection claims *)

\* C1: every selectBase(b), from any selection and also for the base that
\* is already selected, leaves base b selected and no table and no view
\* selected.
C1_SelectBaseResetsDescendants ==
    [][\A b \in BaseIds :
          ClickBase(b) => /\ selectedBaseId' = b
                          /\ selectedTableId' = NoId
                          /\ selectedViewId' = NoId]_vars

\* a base was selected again after a table of it had been selected and its
\* views listed: the row of the selected base is collapsed, which only a
\* click on the already selected base does
C1_Witness ==
    /\ selectedBaseId # NoId
    /\ selectedBaseId \notin expandedBases
    /\ sbViews # << >>
    /\ selectedTableId = NoId
    /\ selectedViewId = NoId

\* C2: every selectTable(t) leaves table t selected, no view selected and
\* the base selection as it was before the call.
C2_SelectTableResetsViewKeepsBase ==
    [][\A t \in TableIds :
          ClickTable(t) => /\ selectedTableId' = t
                           /\ selectedViewId' = NoId
                           /\ selectedBaseId' = selectedBaseId]_vars

\* a table is selected while the views cached are those of another table,
\* so a table was selected after another one had been
C2_Witness ==
    /\ selectedBaseId # NoId
    /\ selectedTableId # NoId
    /\ selectedViewId = NoId
    /\ \E v \in Range(sbViews) : v.tableId # selectedTableId

\* C3: selectView(v) sets the view selection to v and changes neither the
\* base selection, the table selection, the cached current base nor the
\* cached current table.
C3_SelectViewOnlySetsView ==
    [][\A v \in ViewIds :
          ClickView(v) => /\ selectedViewId' = v
                          /\ selectedBaseId' = selectedBaseId
                          /\ selectedTableId' = selectedTableId
                          /\ currentBase' = currentBase
                          /\ currentTable' = currentTable]_vars

\* a view is selected while the current base and table are cached
C3_Witness ==
    /\ selectedViewId # NoId
    /\ selectedTableId # NoId
    /\ currentBase # Undefined
    /\ currentTable # Undefined

----------------------------------------------------------------------------
(* Cascade claims *)

FieldTypesOfBase == <<"text", "text", "select">>
FieldTypesOfTable == <<"text", "text">>

\* in the store <<T, F, V>>, table t has exactly the fields of positions
\* 0..Len(types)-1 with these types and exactly one view, all created after
\* the table, the fields in position order and the view last
CompleteTable(t, types, F, V) ==
    LET fs == {f \in F : f.tableId = t.id}
        vs == {v \in V : v.tableId = t.id}
    IN /\ Cardinality(fs) = Len(types)
       /\ \A p \in 1..Len(types) :
             \E f \in fs : f.position = p - 1 /\ f.type = types[p]
       /\ Cardinality(vs) = 1
       /\ \A f \in fs : t.createdAt < f.createdAt
       /\ \A f, g \in fs : f.position < g.position => f.createdAt < g.createdAt
       /\ \A f \in fs : \A v \in vs : f.createdAt < v.createdAt

\* in the store <<B, T, F, V>>, base id has exactly one table, created after
\* the base, and that table is complete
CompleteBase(id, B, T, F, V) ==
    LET bs == {b \in B : b.id = id}
        ts == {t \in T : t.baseId = id}
    IN /\ Cardinality(bs) = 1
       /\ Cardinality(ts) = 1
       /\ \A b \in bs : \A t \in ts :
             /\ b.createdAt < t.createdAt
             /\ CompleteTable(t, FieldTypesOfBase, F, V)

\* in the store <<B, T, F, V>>, base id has the table tid of its cascade,
\* created after the base and complete; any other table of the base carries
\* a description or null, as only createTable sends it
CascadeCompleteBase(id, tid, B, T, F, V) ==
    LET bs == {b \in B : b.id = id}
        ts == {t \in T : t.baseId = id}
        own == {t \in ts : t.id = tid}
    IN /\ Cardinality(bs) = 1
       /\ Cardinality(own) = 1
       /\ \A t \in own : t.name = TableOneStr /\ t.description = UndefinedStr
       /\ \A t \in ts \ own : t.description # UndefinedStr
       /\ \A b \in bs : \A t \in own :
             /\ b.createdAt < t.createdAt
             /\ CompleteTable(t, FieldTypesOfBase, F, V)

\* C4 as stated: whenever createBase signals success, the store holds for
\* the base of that cascade exactly 1 table, exactly 3 fields of positions
\* 0,1,2 and types text,text,select, and exactly 1 view, created in the
\* order base, table, field 0, field 1, field 2, view.
C4_BaseSuccessMeansExactlyOneTable ==
    [][refreshCalls'.base # refreshCalls.base
          => CompleteBase(baseSubmit.baseId, dbBases', dbTables', dbFields', dbViews')]_vars

\* C4: whenever createBase signals success, the store holds the base of that
\* cascade and exactly 1 table that the cascade created for it (the default
\* table; tables that createTable added to the base meanwhile come on top),
\* with exactly 3 fields of positions 0,1,2 and types text,text,select and
\* exactly 1 view for that table, created in the order base, table, field 0,
\* field 1, field 2, view.
C4_BaseSuccessMeansCompleteCascade ==
    [][refreshCalls'.base # refreshCalls.base
          => CascadeCompleteBase(baseSubmit.baseId, baseSubmit.tableId,
                                 dbBases', dbTables', dbFields', dbViews')]_vars

\* createBase has signalled success for a base to which createTable had
\* added a table before the view of the default table was created
C4_Witness ==
    /\ refreshCalls.base = 1
    /\ baseSubmit.pc = "idle"
    /\ \E t1, t2 \in dbTables : \E v \in dbViews :
          /\ t1.baseId = t2.baseId /\ t1.id # t2.id
          /\ t1.description = UndefinedStr /\ t2.description # UndefinedStr
          /\ v.tableId = t1.id
          /\ t2.createdAt < v.createdAt

\* C5: whenever createTable reports success (the modal closes and the signal
\* is scheduled) and whenever its signal is delivered, the store holds for
\* the table of that cascade exactly 2 text fields of positions 0 and 1 and
\* exactly 1 view, of type grid.
C5_TableSuccessMeansCompleteTable ==
    [][\A id \in (tableTimers' \ tableTimers) \cup (tableTimers \ tableTimers') :
          /\ Cardinality({t \in dbTables' : t.id = id}) = 1
          /\ \A t \in {x \in dbTables' : x.id = id} :
                /\ CompleteTable(t, FieldTypesOfTable, dbFields', dbViews')
                /\ \A v \in {x \in dbViews' : x.tableId = id} : v.type = "grid"]_vars

\* createTable has closed its modal and its signal has been delivered
C5_Witness ==
    /\ refreshCalls.table = 1
    /\ tableTimers = {}
    /\ tableSubmit.pc = "idle"
    /\ \E t \in dbTables : t.description = NullStr /\ t.id >= FilledStore.nextId

\* C6: a create call in flight has its parent in the store (the base of a
\* table, the table of a field or view), a field create in flight has every
\* field of a lower position of its table in the store and none of its own
\* or a higher position, and a cascade has at most one create call in flight.
C6_CreatesAreSequential ==
    /\ \A c \in creates :
          /\ c.coll = "tables" => c.entity.baseId \in BaseIds
          /\ c.coll \in {"fields", "views"} => c.entity.tableId \in TableIds
          /\ c.coll = "fields" =>
                {f.position : f \in {x \in dbFields : x.tableId = c.entity.tableId}}
                    = 0..(c.entity.position - 1)
    /\ \A who \in {"base", "table"} :
          Cardinality({c \in creates : c.who = who}) <= 1

\* the create of the last default field of a base cascade is in flight
C6_Witness ==
    \E c \in creates :
        /\ c.who = "base" /\ c.coll = "fields"
        /\ c.entity.position = 2

\* a step in which the running handleSubmit of a modal ends in its catch
BaseFailed ==
    /\ baseSubmit.pc # "idle" /\ baseSubmit'.pc = "idle"
    /\ refreshCalls'.base = refreshCalls.base

TableFailed ==
    /\ tableSubmit.pc # "idle" /\ tableSubmit'.pc = "idle"
    /\ tableTimers' = tableTimers

\* C7: when a step of a cascade fails, no further create call is issued
\* (the only change of the calls in flight is that the failed one is gone),
\* nothing is deleted from the store and the store keeps every entity the
\* earlier steps created; while no handleSubmit runs, the modal has no call
\* in flight, so nothing is retried.
C7_FailureAbandonsCascade ==
    [][/\ BaseFailed \/ TableFailed =>
             /\ creates' \subseteq creates
             /\ dbBases' = dbBases /\ dbTables' = dbTables
             /\ dbFields' = dbFields /\ dbViews' = dbViews
       /\ BaseFailed => {c \in creates' : c.who = "base"} = {}
       /\ TableFailed => {c \in creates' : c.who = "table"} = {}
       /\ dbBases \subseteq dbBases' /\ dbTables \subseteq dbTables'
       /\ dbFields \subseteq dbFields' /\ dbViews \subseteq dbViews']_vars

\* a base cascade has failed after the base was created: the base is in the
\* store without any table, and nothing is in flight
C7_Witness ==
    /\ baseSubmit.pc = "idle" /\ tableSubmit.pc = "idle"
    /\ creates = {}
    /\ submits > 0
    /\ \E b \in dbBases : \A t \in dbTables : t.baseId # b.id

\* C8 as stated: every failing step of a base creation and of a table
\* creation shows an alert that carries the message of the error.
C8_EveryFailureAlerts ==
    [][BaseFailed \/ TableFailed =>
          /\ Len(alerts') = Len(alerts) + 1
          /\ alerts'[Len(alerts')].message
                \in {ErrorMessage(e) : e \in Errors}]_vars

\* C9: when a cascade fails, the modal is left as it was (open, if the
\* user had it open), name, description and colour of the form keep what
\* the user typed, no success signal is sent or scheduled, and the
\* submitting flag is false again.
C9_FailureLeavesFormForRetry ==
    [][/\ BaseFailed =>
             /\ createBaseModalOpen' = createBaseModalOpen
             /\ baseModal'.name = baseModal.name
             /\ baseModal'.description = baseModal.description
             /\ baseModal'.selectedColor = baseModal.selectedColor
             /\ baseModal'.loading = FALSE
             /\ refreshCalls' = refreshCalls
       /\ TableFailed =>
             /\ createTableModalOpen' = createTableModalOpen
             /\ tableModal'.name = tableModal.name
             /\ tableModal'.description = tableModal.description
             /\ tableModal'.loading = FALSE
             /\ refreshCalls' = refreshCalls
             /\ tableTimers' = tableTimers]_vars

\* a table cascade has failed: the alert is up, the modal is open with the
\* typed name and description, the flag is down, nothing was signalled
C9_Witness ==
    /\ alerts # << >>
    /\ tableSubmit.pc = "idle"
    /\ createTableModalOpen
    /\ Trim(tableModal.name) # EmptyStr
    /\ tableModal.description # EmptyStr
    /\ ~tableModal.loading
    /\ refreshCalls.table = 0 /\ tableTimers = {}

\* a step in which the view create of a cascade resolves
BaseSucceeded ==
    /\ baseSubmit.pc = "views.create"
    /\ \E c \in BaseCall("views") : c.entity.id \in ViewIds'

TableSucceeded ==
    /\ tableSubmit.pc = "views.create"
    /\ \E c \in TableCall("views") : c.entity.id \in ViewIds'

\* C10: the step in which the view create of a cascade resolves resets the
\* form to its defaults and closes the modal; for createBase it signals the
\* caller once, for createTable it schedules one timer, and each timer
\* signals the caller once when it fires; no other step signals the caller
\* or schedules a timer, so a failed cascade never signals.
C10_SuccessSignalsOnce ==
    [][/\ BaseSucceeded =>
             /\ baseModal' = InitBaseModal
             /\ ~createBaseModalOpen'
       /\ refreshCalls'.base =
             IF BaseSucceeded THEN refreshCalls.base + 1 ELSE refreshCalls.base
       /\ TableSucceeded =>
             /\ tableModal' = InitTableModal
             /\ ~createTableModalOpen'
       /\ Cardinality(tableTimers' \ tableTimers) = IF TableSucceeded THEN 1 ELSE 0
       /\ refreshCalls'.table =
             refreshCalls.table + Cardinality(tableTimers \ tableTimers')]_vars

\* a table cascade has succeeded and its one signal has been delivered
C10_Witness ==
    /\ refreshCalls.table = 1
    /\ tableTimers = {}
    /\ tableModal = InitTableModal
    /\ ~createTableModalOpen
    /\ alerts = << >>

----------------------------------------------------------------------------
(* Refresh after a creation *)

\* the list calls a step issues: those in flight after the step that were
\* not in flight before it, be it under a component that the step unmounts
Issued == fetches' \ (fetches \cup {[f EXCEPT !.mounted = FALSE] : f \in fetches})

\* C11: the step that delivers the success signal of a base, table or
\* record creation issues the list call of the dependent listing: the
\* bases of the user, the tables of the selected base, the records of the
\* selected table (which the grid reads after its fields).
C11_SuccessSignalRefetchesListing ==
    [][/\ refreshCalls'.base # refreshCalls.base =>
             \E f \in Issued : f.kind = "bases" /\ f.userId = user
       /\ refreshCalls'.table # refreshCalls.table =>
             \E f \in Issued : f.kind = "tables" /\ f.id = selectedBaseId
       /\ refreshCalls'.record # refreshCalls.record =>
             \E f \in Issued : f.kind \in GridKinds /\ f.id = selectedTableId]_vars

----------------------------------------------------------------------------
(* Minimum viable schema *)

\* C12: in every state of the remote store every base has at least one
\* table, and every table has at least one field and at least one view of
\* type grid.
C12_StoreAlwaysHasMinimumSchema ==
    /\ \A b \in dbBases : \E t \in dbTables : t.baseId = b.id
    /\ \A t \in dbTables :
          /\ \E f \in dbFields : f.tableId = t.id
          /\ \E v \in dbViews : v.tableId = t.id /\ v.type = "grid"

----------------------------------------------------------------------------
(* Loader guards *)

\* the list calls of the loaders of App, Sidebar and GridView
ListKinds == {"currentBase", "currentTable", "bases", "tables", "views",
              "fields", "records"}

\* C13: every list call a loader issues carries the user id the loader ran
\* with and, but for the listing of the user's bases, a parent id, and both
\* are present. A loader that runs without them does nothing: the step that
\* clears the table selection issues no call for a table, leaves the cached
\* views alone and has no grid, and the step that ends the session issues no
\* call and leaves the cached base and table alone.
C13_NoListCallWithoutParentAndUser ==
    [][/\ \A f \in Issued :
              f.kind \in ListKinds =>
                  /\ f.userId # NoUser
                  /\ f.kind # "bases" => f.id # NoId
       /\ (selectedTableId # NoId /\ selectedTableId' = NoId) =>
              /\ \A f \in Issued : f.kind \notin {"currentTable", "views", "fields"}
              /\ sbViews' = sbViews
              /\ gridRecords' = << >>
       /\ (user # NoUser /\ user' = NoUser) =>
              /\ Issued = {}
              /\ currentBase' = currentBase
              /\ currentTable' = currentTable]_vars

\* the user has signed out while a table was selected and cached
C13_Witness ==
    /\ ~loading /\ user = NoUser
    /\ selectedTableId # NoId
    /\ currentTable # Undefined
    /\ currentBase # Undefined
    /\ fetches = {}

----------------------------------------------------------------------------
(* Loader triggers *)

\* the step changes the pair (selected table id, user id) to a pair with a
\* table and a user
TablePairChanged ==
    /\ <<selectedTableId', user'>> # <<selectedTableId, user>>
    /\ selectedTableId' # NoId
    /\ user' # NoUser

\* C14: every step that selects another table while a user is signed in,
\* and every step that changes the user while a table is selected, leaves
\* list calls for the current table, for the views and for the fields of
\* the new (table id, user id) pair in flight and the grid loading; when
\* the fields call of the mounted grid resolves with a result, the records
\* call for the same pair is in flight.
C14_TableOrUserChangeRefetches ==
    [][/\ TablePairChanged =>
             /\ Fetch("currentTable", selectedTableId', user') \in fetches'
             /\ Fetch("views", selectedTableId', user') \in fetches'
             /\ Fetch("fields", selectedTableId', user') \in fetches'
             /\ gridLoading'
       /\ \A f \in fetches \ fetches' :
             (/\ f.kind = "fields" /\ f.mounted
              /\ [f EXCEPT !.mounted = FALSE] \notin fetches'
              /\ gridLoading') =>
                 /\ [f EXCEPT !.kind = "records"] \in fetches'
                 /\ ~TablePairChanged]_vars

\* another user has signed in while a table of the first user was selected;
\* the fields of the table have resolved for that user
C14_Witness ==
    /\ user = "u2"
    /\ selectedTableId = GridTable.id
    /\ Fetch("currentTable", GridTable.id, "u2") \in fetches
    /\ Fetch("records", GridTable.id, "u2") \in fetches

----------------------------------------------------------------------------
(* Staleness *)

\* the list calls that resolve in a step (a call that leaves because its
\* component unmounts is in flight after the step, detached)
Resolved ==
    {f \in fetches \ fetches' : [f EXCEPT !.mounted = FALSE] \notin fetches'}

\* what a list call returns in the store as it is
TablesOf(f) ==
    OrderByCreatedAsc({t \in dbTables : t.baseId = f.id /\ t.userId = f.userId})
ViewsOf(f) ==
    OrderByCreatedAsc({v \in dbViews : v.tableId = f.id /\ v.userId = f.userId})
RecordsOf(f) ==
    OrderByCreatedDesc({r \in dbRecords : r.tableId = f.id /\ r.userId = f.userId})

----------------------------------------------------------------------------
(* Cell updates *)

\* the update calls whose updateCellValue completes in a step
Settled ==
    IF Cardinality(updates') < Cardinality(updates) THEN updates \ updates' ELSE {}

\* the update calls that take effect in the store in a step
Applied ==
    {u \in updates \ updates' :
        u.stage = "sent" /\ [u EXCEPT !.stage = "resolved"] \in updates' \ updates}

\* the cached records with the mapping of record recordId replaced
WithMapping(recordId, data) ==
    [i \in 1..Len(gridRecords) |->
        IF gridRecords[i].id = recordId
        THEN [gridRecords[i] EXCEPT !.data = JSONstringify(data)]
        ELSE gridRecords[i]]

\* C16: when updateCellValue(r, f, v) completes after a successful update
\* that no other update overlapped, with r still among the cached records,
\* the cached mapping of r is the mapping cached before with f set to v, the
\* stored mapping of r is the same, every other cached record and the
\* number and order of the cached records are as before, and no list call
\* is issued by the call or by its completion; the successful update
\* changes no other stored record.
C16_SoloUpdateMergesOneField ==
    [][/\ \A u \in Settled :
             (/\ u.stage = "resolved" /\ u.alone /\ u.mounted
              /\ u.recordId \in ShownRecordIds) =>
                 LET old == parseRecordData(CachedRecord(u.recordId).data)
                     new == Spread(old, u.fieldId, u.value)
                 IN /\ gridRecords' = WithMapping(u.recordId, new)
                    /\ \A k \in DOMAIN old \ {u.fieldId} :
                          CellValue(gridRecords'[CHOOSE i \in 1..Len(gridRecords) :
                                         gridRecords[i].id = u.recordId].data, k) = old[k]
                    /\ \E r \in dbRecords' :
                          r.id = u.recordId /\ r.data = JSONstringify(new)
                    /\ fetches' = fetches
       /\ \A u \in Applied :
             /\ {r \in dbRecords' : r.id # u.recordId}
                   = {r \in dbRecords : r.id # u.recordId}
             /\ {r.id : r \in dbRecords'} = {r.id : r \in dbRecords}
       /\ Cardinality(updates') > Cardinality(updates) => fetches' = fetches]_vars

\* the first cell of the record with three values has been set to "z" by an
\* update that has completed: cache and store hold the merged mapping
C16_Witness ==
    /\ updates = {}
    /\ edits = 1
    /\ \E i \in 1..Len(gridRecords) :
          /\ gridRecords[i].id = 23
          /\ gridRecords[i].data = JSONstringify((3 :> "z") @@ (4 :> "y") @@ (5 :> ""))
    /\ \E r \in dbRecords :
          /\ r.id = 23
          /\ r.data = JSONstringify((3 :> "z") @@ (4 :> "y") @@ (5 :> ""))

\* C17: while the update call of updateCellValue(r, f, v) is pending, and
\* after it has been rejected, the cached record r already holds v for f.
C17_UpdateIsOptimistic ==
    \A u \in updates :
        (/\ u.stage \in {"sent", "rejected"} /\ u.alone /\ u.mounted
         /\ u.recordId \in ShownRecordIds) =>
            CellValue(CachedRecord(u.recordId).data, u.fieldId) = u.value

----------------------------------------------------------------------------
(* The editing marker *)

\* the cells of the shown grid that are rendered as an Input
EditedCells ==
    {c \in ShownRecordIds \X ShownFieldIds :
        editingCell = [recordId |-> c[1], fieldId |-> c[2]]}

\* C19: at most one cell is under edit; beginEdit(r, f) makes (r, f) the
\* cell under edit whichever cell was before, endEdit leaves no cell under
\* edit, and neither changes a cached or stored record or any call in
\* flight: a value typed before Escape stays.
C19_EditMarkerOnly ==
    [][/\ Cardinality(EditedCells) <= 1
       /\ \A r \in RecordIds : \A f \in FieldIds :
             beginEdit(r, f) =>
                 /\ editingCell' = [recordId |-> r, fieldId |-> f]
                 /\ UNCHANGED <<gridRecords, gridFields, dbVars, fetches, updates,
                                creates>>
       /\ endEdit =>
             /\ editingCell' = NoCell
             /\ UNCHANGED <<gridRecords, gridFields, dbVars, fetches, updates,
                            creates>>]_vars

\* a value was typed into a cell and has been stored and cached, and the
\* edit has then been ended: no cell is under edit and the value is there
C19_Witness ==
    /\ editingCell = NoCell
    /\ edits > 0
    /\ updates = {}
    /\ \E i \in 1..Len(gridRecords) :
          /\ gridRecords[i].id = 23
          /\ CellValue(gridRecords[i].data, 4) = "z"

----------------------------------------------------------------------------
(* Failures of updates and of record creation *)

\* a step in which the handleSubmit of the record modal fails: me() rejects,
\* or the create call rejects and stores nothing
RecordFailed ==
    \/ recordSubmit.pc = "me" /\ recordSubmit'.pc # "records.create"
                              /\ recordSubmit' # recordSubmit
    \/ /\ recordSubmit.pc = "records.create"
       /\ RecordCall' # RecordCall
       /\ dbRecords' = dbRecords

\* C18: the step in which updateCellValue learns that its update call was
\* rejected ends the call, shows no alert, issues no call, and leaves the
\* editing marker and the cached records as they were; the step in which
\* the submission of the record modal fails ends the submission with the
\* submitting flag down, shows no alert, issues no call and leaves the
\* store alone.
C18_RecordFailuresAreSilent ==
    [][/\ \A u \in Settled :
             u.stage = "rejected" =>
                 /\ alerts' = alerts
                 /\ editingCell' = editingCell
                 /\ gridRecords' = gridRecords
                 /\ updates' = updates \ {u}
                 /\ UNCHANGED <<fetches, creates, dbVars>>
       /\ RecordFailed =>
             /\ recordSubmit' = IdleRecordSubmit
             /\ ~recordModal'.loading
             /\ alerts' = alerts
             /\ RecordCall' = {}
             /\ UNCHANGED <<fetches, updates, dbVars, editingCell>>]_vars

\* the one edit of a cell was rejected and updateCellValue has returned: the
\* cell is still under edit, store and cache are as before, no alert is up
C18_Witness ==
    /\ edits = 1
    /\ recordModal.fields = << >>
    /\ updates = {}
    /\ editingCell # NoCell
    /\ dbRecords = FilledStore.records
    /\ alerts = << >>

----------------------------------------------------------------------------
(* Missing session *)

\* the position of the handleSubmit of a modal
SubmitPc(who) ==
    IF who = "base" THEN baseSubmit.pc
    ELSE IF who = "table" THEN tableSubmit.pc
    ELSE recordSubmit.pc

\* the me() calls of loadFields that are rejected in a step
LoadFieldsMeRejected ==
    {f \in Resolved :
        /\ f.kind = "me"
        /\ \A g \in fetches' \ fetches : g.kind # "modalFields"}

----------------------------------------------------------------------------
(* Ownership *)

\* C21: every create call a step issues carries as owner the user who is
\* signed in when the step is over, and every list call a step issues
\* filters on that user.
C21_CallsNameTheSessionUser ==
    [][/\ \A c \in creates' \ creates : c.entity.userId = user'
       /\ \A f \in Issued : f.kind \in ListKinds \cup {"modalFields"} =>
             f.userId = user']_vars

----------------------------------------------------------------------------
(* Field positions *)

FieldsOfTable(tableId) == {f \in dbFields : f.tableId = tableId}

\* C22: in the remote store the fields of each table have pairwise
\* different positions, and these are 0 .. n-1 for the n fields of the
\* table, also while a cascade is running and after one has failed.
C22_PositionsAreZeroToNMinusOne ==
    \A t \in {f.tableId : f \in dbFields} :
        /\ \A f, g \in FieldsOfTable(t) : f.position = g.position => f = g
        /\ {f.position : f \in FieldsOfTable(t)} =
               0 .. Cardinality(FieldsOfTable(t)) - 1

\* a base cascade failed after its first field: the new table is left
\* with one field
C22_Witness ==
    /\ baseSubmit.pc = "idle" /\ tableSubmit.pc = "idle"
    /\ creates = {}
    /\ submits > 0
    /\ \E t \in dbTables :
          /\ Cardinality(FieldsOfTable(t.id)) = 1
          /\ \A v \in dbViews : v.tableId # t.id

----------------------------------------------------------------------------
(* Malformed payloads *)

\* C23: no payload of the store makes rendering fail: neither the rows of
\* the grid nor the record form throw, whatever record data and option
\* list they are given.
C23_MalformedPayloadNeverPropagates == PageRenders

----------------------------------------------------------------------------
(* Select cells *)

\* the select cells of the rendered rows whose option list can be read
SelectCells ==
    {<<r, f>> \in Range(gridRecords) \X Range(gridFields) :
        /\ f.type = "select"
        /\ ~(editingCell.recordId = r.id /\ editingCell.fieldId = f.id)
        /\ "json" \in DOMAIN f.options \/ "undefined" \in DOMAIN f.options}

OptionList(f) == IF "json" \in DOMAIN f.options THEN f.options.json ELSE << >>

RecordMapping(r) == IF "json" \in DOMAIN r.data THEN r.data.json ELSE EmptyMap

\* C24: a select cell shows the name of the option whose id is the record's
\* value for the field when the option list has such an option, and shows
\* nothing when it has none or the record has no value for the field.
C24_SelectShowsNameOfMatchingOption ==
    GridShown =>
      \A c \in SelectCells :
        LET r == c[1]
            f == c[2]
            named == {o \in Range(OptionList(f)) :
                         f.id \in DOMAIN RecordMapping(r) /\ o.id = RecordMapping(r)[f.id]}
            shown == renderEditableCell(r, f)
        IN /\ ~shown.threw
           /\ named # {} =>
                 /\ shown.element = "Badge"
                 /\ \E o \in named : shown.text = o.name
           /\ named = {} => shown.element = "null"

\* the grid shows the badge of an option, and an empty select cell of a
\* record that has no value for the field
C24_Witness ==
    /\ GridShown
    /\ \E c \in SelectCells : renderEditableCell(c[1], c[2]) = BadgeOf("To do")
    /\ \E c \in SelectCells :
          /\ c[2].id \notin DOMAIN RecordMapping(c[1])
          /\ OptionList(c[2]) # << >>
          /\ renderEditableCell(c[1], c[2]) = Nothing

----------------------------------------------------------------------------
(* Shape of the selection *)

NoSelection == selectedBaseId = NoId /\ selectedTableId = NoId /\ selectedViewId = NoId
BaseSelected == selectedBaseId # NoId /\ selectedTableId = NoId /\ selectedViewId = NoId
TableSelected == selectedBaseId # NoId /\ selectedTableId # NoId /\ selectedViewId = NoId
ViewSelected == selectedBaseId # NoId /\ selectedTableId # NoId /\ selectedViewId # NoId

\* C25: the selection is always one of the four shapes: a view is selected
\* only with a table, and a table only with a base.
C25_SelectionIsNested ==
    NoSelection \/ BaseSelected \/ TableSelected \/ ViewSelected

\* a view is selected after the base has been changed at least once: two
\* base rows are expanded
C25_Witness ==
    /\ ViewSelected
    /\ Cardinality(expandedBases) >= 2

----------------------------------------------------------------------------
(* The selected table and the selected base *)

\* C26: the selected table, if there is one, is a table of the selected
\* base.
C26_SelectedTableBelongsToSelectedBase ==
    selectedTableId # NoId =>
        \A t \in dbTables : t.id = selectedTableId => t.baseId = selectedBaseId

----------------------------------------------------------------------------
(* Overlapping updates *)

PersistedMapping(recordId) ==
    parseRecordData((CHOOSE r \in dbRecords : r.id = recordId).data)

\* C27: when two update calls for different fields of one record have both
\* been applied by the store, the second having started before the first
\* resolved, the persisted mapping of the record holds both new values.
C27_OverlappingUpdatesKeepBothValues ==
    \A u, v \in updates :
        /\ u.recordId = v.recordId /\ u.fieldId # v.fieldId
        /\ u.stage = "resolved" /\ v.stage = "resolved"
        => LET data == PersistedMapping(u.recordId)
           IN /\ u.fieldId \in DOMAIN data /\ data[u.fieldId] = u.value
              /\ v.fieldId \in DOMAIN data /\ data[v.fieldId] = v.value

----------------------------------------------------------------------------
(* The grid after its loads *)

\* no list call of the mounted grid is in flight
GridIdle == \A f \in fetches : ~(f.kind \in GridKinds /\ f.mounted)

\* C28: when the records call for the table the grid shows succeeds (the
\* fields call of that loadData succeeded before it) and leaves no loadData
\* call in flight, the cached fields and the cached records are those of
\* that table.
C28_IdleGridCachesCurrentTable ==
    [][\A f \in Resolved :
          /\ f.kind = "records" /\ f.mounted /\ f.id = selectedTableId
          /\ GridIdle'
          /\ gridRecords' = OrderByCreatedDesc({r \in dbRecords :
                                r.tableId = f.id /\ r.userId = f.userId})
          => /\ \A x \in Range(gridFields') : x.tableId = selectedTableId'
             /\ \A r \in Range(gridRecords') : r.tableId = selectedTableId']_vars

----------------------------------------------------------------------------
(* The cached current table *)

\* C29: while no table is selected the App caches no current table.
C29_NoTableSelectedNoCurrentTable ==
    selectedTableId = NoId => currentTable = Undefined

----------------------------------------------------------------------------
(* Records created through the form *)

\* C30: the mapping of every record that the record modal sends to the
\* store has as keys exactly the ids of the fields of the record's table.
C30_CreatedRecordHasKeysOfItsTable ==
    [][\A c \in creates' \ creates :
          c.coll = "records" =>
              DOMAIN parseRecordData(c.entity.data) =
                  {f.id : f \in {x \in dbFields : x.tableId = c.entity.tableId}}]_vars

----------------------------------------------------------------------------
(* The selected view and the selected table *)

\* C31: the selected view, if there is one, is a view of the selected
\* table, and every view the sidebar offers for clicking is a view of the
\* selected table, whatever list of views is cached.
C31_SelectedViewBelongsToSelectedTable ==
    /\ selectedViewId # NoId =>
          /\ selectedTableId # NoId
          /\ \A v \in dbViews : v.id = selectedViewId => v.tableId = selectedTableId
    /\ \A v \in dbViews : v.id \in ClickableViews => v.tableId = selectedTableId

\* a view of the base's second table is selected
C31_Witness ==
    /\ selectedTableId = 7
    /\ \E v \in dbViews : v.id = selectedViewId /\ v.tableId = 7

----------------------------------------------------------------------------
(* Cached entities and the session *)

\* C32: while a user is signed in, the current base and the current table
\* the App caches, if set, are owned by that user.
C32_CachedEntitiesBelongToSessionUser ==
    user # NoUser =>
        /\ currentBase # Undefined => currentBase.userId = user
        /\ currentTable # Undefined => currentTable.userId = user

----------------------------------------------------------------------------
(* Submissions finish *)

\* the create calls the running submission of a modal has issued so far
BaseCreatesIssued ==
    CASE baseSubmit.pc = "bases.create" -> 1
      [] baseSubmit.pc = "tables.create" -> 2
      [] baseSubmit.pc = "fields.create" -> 2 + baseSubmit.i
      [] baseSubmit.pc = "views.create" -> 3 + Len(BaseDefaultFields)
      [] OTHER -> 0

TableCreatesIssued ==
    CASE tableSubmit.pc = "tables.create" -> 1
      [] tableSubmit.pc \in {"fields.create", "delay"} -> 1 + tableSubmit.i
      [] tableSubmit.pc = "views.create" -> 2 + Len(TableDefaultFields)
      [] OTHER -> 0

RecordCreatesIssued == IF recordSubmit.pc = "records.create" THEN 1 ELSE 0

\* a step issues at most one create call per modal, counted by the
\* submission, and the count stays within the bound of the modal
CreatesAreCounted ==
    /\ \A c \in creates' \ creates :
          /\ c.who = "base" =>
                BaseCreatesIssued' = BaseCreatesIssued + 1 /\ BaseCreatesIssued' <= 6
          /\ c.who = "table" =>
                TableCreatesIssued' = TableCreatesIssued + 1 /\ TableCreatesIssued' <= 4
          /\ c.who = "record" =>
                RecordCreatesIssued' = RecordCreatesIssued + 1 /\ RecordCreatesIssued' <= 1
    /\ Cardinality({c \in creates' \ creates : c.who = "base"}) <= 1
    /\ Cardinality({c \in creates' \ creates : c.who = "table"}) <= 1
    /\ Cardinality({c \in creates' \ creates : c.who = "record"}) <= 1
    /\ BaseCreatesIssued' > BaseCreatesIssued =>
          \E c \in creates' \ creates : c.who = "base"
    /\ TableCreatesIssued' > TableCreatesIssued =>
          \E c \in creates' \ creates : c.who = "table"
    /\ RecordCreatesIssued' > RecordCreatesIssued =>
          \E c \in creates' \ creates : c.who = "record"

\* no submission starts while the submitting flag of its modal is set
NoSubmitWhileSubmitting ==
    /\ baseModal.loading => ~(baseSubmit.pc # "me" /\ baseSubmit'.pc = "me")
    /\ tableModal.loading => ~(tableSubmit.pc # "me" /\ tableSubmit'.pc = "me")
    /\ recordModal.loading => ~(recordSubmit.pc # "me" /\ recordSubmit'.pc = "me")

\* C33: when every call settles, each submitted base, table or record
\* creation finishes, as success or failure, with the submitting flag of
\* its modal false again; a submission issues at most 6, 4 and 1 create
\* calls respectively, and none starts while the flag of its modal is set.
C33_SubmissionsFinishWithinBounds ==
    /\ [][CreatesAreCounted /\ NoSubmitWhileSubmitting]_vars
    /\ (baseSubmit.pc # "idle") ~> (baseSubmit.pc = "idle" /\ ~baseModal.loading)
    /\ (tableSubmit.pc # "idle") ~> (tableSubmit.pc = "idle" /\ ~tableModal.loading)
    /\ (recordSubmit.pc # "idle") ~> (recordSubmit.pc = "idle" /\ ~recordModal.loading)

\* a base cascade has run to its sixth create call
C33_Witness ==
    /\ baseSubmit.pc = "views.create"
    /\ baseModal.loading
    /\ BaseCreatesIssued = 6
    /\ \E c \in creates : c.who = "base" /\ c.coll = "views"

====
